---------------------------- MODULE Spec2Model ----------------------------
(***************************************************************************)
(* Task State Store (create / getStatus / update) and Focus Chain          *)
(* Checkpoint Engine (initializeFocusChain / addFocusCheckpoint /          *)
(* getFocusStatus) of src/src/focus-chain.ts.                              *)
(*                                                                         *)
(* Every exported function is an async function: it runs synchronously up  *)
(* to its next await, and the awaited filesystem operation takes effect at *)
(* some later instant.  One action of the model is one such instant: the   *)
(* awaited operation acts on the files, and the continuation runs up to    *)
(* the next await.  Calls of different processes interleave at the awaits. *)
(*                                                                         *)
(* fs.writeFile is not atomic: it opens the file with flag 'w' (create,    *)
(* truncate to zero bytes) and writes the data afterwards.  The model      *)
(* keeps the two instants apart.                                           *)
(*                                                                         *)
(* A string is a sequence of symbols; the symbol " " is white space.       *)
(***************************************************************************)
EXTENDS Integers, Sequences, FiniteSets, TLC

VARIABLES
    taskFiles,        \* .alfredo/tasks: file name (task id) -> content
    tasksDir,         \* whether .alfredo/tasks exists
    checkpointFiles,  \* .alfredo/checkpoints: file name (task id) -> content
    checkpointsDir,   \* whether .alfredo/checkpoints exists
    now,              \* the clock read by new Date()
    uuids,            \* how many identifiers randomUUID() has produced
    pc,               \* per process: the await it is suspended at
    op,               \* per process: the function it is running
    arg,              \* per process: the arguments of the call
    key,              \* per process: the file name the call works on
    buf,              \* per process: the object it is about to write
    ret,              \* per process: what the call returned or threw
    calls,            \* number of calls of the checkpoint engine started
    overlap,          \* history, per process: whether its call has been in
                      \*          flight together with a call of another process
    created,          \* history: task id create returned -> the record it wrote
    persisted,        \* history: per directory, file name -> the last object
                      \*          a write put on disk
    added             \* history: task id -> how its checkpoint log came to be,
                      \*          the addFocusCheckpoint calls started since
                      \*          and how many of them returned a message

vars == <<taskFiles, tasksDir, checkpointFiles, checkpointsDir, now, uuids,
          pc, op, arg, key, buf, ret, calls, overlap, created, persisted,
          added>>

fsVars == <<taskFiles, tasksDir, checkpointFiles, checkpointsDir>>
histVars == <<overlap, created, persisted, added>>

-----------------------------------------------------------------------------
(* Bounds of the model *)

MaxClock == 2
\* calls of the checkpoint engine in a run with concurrent callers
MaxFocusCalls == 3
\* calls of the checkpoint engine in a run with one caller
MaxSeqFocusCalls == 6
\* calls of the checkpoint engine in a run with one caller and one
\* description
MaxLongFocusCalls == 11
\* calls of create that pass the argument checks, in a run of concurrent
\* creates
MaxCreates == 3
\* calls of create that pass the argument checks, in a run with one caller
MaxSeqCreates == 2
\* calls of the checkpoint engine on a log another program has written
MaxStoredLogCalls == 2
\* calls of the checkpoint engine in a run of callers working on two tasks
MaxTwoTasksFocusCalls == 2

Procs == {"p1", "p2"}

-----------------------------------------------------------------------------
(* Strings and JavaScript values *)

WS == " "

RECURSIVE TrimStart(_)
TrimStart(s) == IF s # <<>> /\ Head(s) = WS THEN TrimStart(Tail(s)) ELSE s

RECURSIVE TrimEnd(_)
TrimEnd(s) ==
    IF s # <<>> /\ s[Len(s)] = WS THEN TrimEnd(SubSeq(s, 1, Len(s) - 1)) ELSE s

\* String.prototype.trim
trim(s) == TrimEnd(TrimStart(s))

Str(s) == [type |-> "string", val |-> s]
Null == [type |-> "null", val |-> <<>>]
Undefined == [type |-> "undefined", val |-> <<>>]
Num123 == [type |-> "number", val |-> <<"123">>]

\* obj[name]: the value of the property, undefined when obj has none of
\* that name
Prop(obj, name) == IF name \in DOMAIN obj THEN obj[name] ELSE Undefined

\* obj[name] = value
SetProp(obj, name, value) ==
    [k \in DOMAIN obj \cup {name} |-> IF k = name THEN value ELSE obj[k]]

IsString(v) == v.type = "string"

\* !v
Falsy(v) == v.type \in {"null", "undefined"} \/ (IsString(v) /\ v.val = <<>>)

Digits == <<"0", "1", "2", "3", "4", "5", "6", "7", "8", "9">>

\* Date.prototype.toISOString: a fixed-width rendering of the instant
toISOString(t) == <<Digits[(t \div 10) + 1], Digits[(t % 10) + 1]>>

IsDigit(c) == \E i \in 1..10 : Digits[i] = c

DigitValue(c) == (CHOOSE i \in 1..10 : Digits[i] = c) - 1

\* .match(/^\d{4}-\d{2}-\d{2}T\d{2}:\d{2}:\d{2}\.\d{3}Z$/)
matchesISO(s) == Len(s) = 2 /\ \A i \in 1..2 : IsDigit(s[i])

\* new Date(s).getTime() of a string that matches
DateParse(s) == DigitValue(s[1]) * 10 + DigitValue(s[2])

UuidSyms == <<"u1", "u2", "u3", "u4", "u5", "u6", "u7", "u8", "u9", "u10",
              "u11", "u12", "u13", "u14", "u15", "u16">>

\* the n-th identifier randomUUID() produces
randomUUID(n) == <<UuidSyms[n]>>

-----------------------------------------------------------------------------
(* File contents *)

\* zero bytes: what open(..., 'w') leaves
EmptyFile == [kind |-> "empty"]
\* bytes that are not well-formed JSON
Garbled == [kind |-> "garbled"]

\* the members JSON.stringify writes for an object: its properties in
\* their order, but for those whose value is undefined
Members(obj) ==
    [k \in {n \in DOMAIN obj :
                n \in {"type", "taskCount", "tasks"} \/ obj[n] # Undefined}
        |-> obj[k]]

\* the text JSON.stringify writes for a value: null, a number and a string
\* as they are, an object by its members, its array of entries by the
\* members of each
Serialized(value) ==
    IF value.type # "object" THEN value
    ELSE LET members == Members(value)
         IN  IF "tasks" \in DOMAIN members
             THEN [members EXCEPT
                      !.tasks = [i \in 1..Len(@) |->
                                    [k \in {n \in DOMAIN @[i] :
                                                @[i][n] # Undefined}
                                        |-> @[i][k]]]]
             ELSE members

\* JSON.stringify(obj, null, 2)
JSONstringify(obj) == [kind |-> "json", json |-> Serialized(obj)]

ParseOk(content) == content.kind = "json"
\* JSON.parse(text), for a text with ParseOk
JSONparse(content) == content.json

Exists(dir, name) == name \in DOMAIN dir

\* the function f with name mapped to value
Put(f, name, value) ==
    [k \in DOMAIN f \cup {name} |-> IF k = name THEN value ELSE f[k]]

\* open(path, 'w'): creates the file or truncates it
OpenTruncate(dir, name) ==
    IF Exists(dir, name) THEN [dir EXCEPT ![name] = EmptyFile]
    ELSE dir @@ (name :> EmptyFile)

\* What the file holds once `text` was written at offset 0 of a file that
\* held `before`: the text, or, when another writer's bytes were there and
\* reach beyond the text's length, the text followed by the other's tail.
Overlay(before, text) ==
    IF before = EmptyFile \/ before = text THEN {text} ELSE {text, Garbled}

-----------------------------------------------------------------------------
(* Process bookkeeping *)

NoArg == [none |-> TRUE]
NoBuf == [none |-> TRUE]
NoRet == [tag |-> "none"]

Returned(v) == [tag |-> "return", val |-> v]
Thrown(name, msg) == [tag |-> "throw", name |-> name, message |-> msg]

Idle(p) == pc[p] = "idle"
Done(p) == pc[p] = "done"
InFlight(p) == pc[p] \notin {"idle", "done"}

\* the call of process p ends with result r
Finish(p, r) ==
    /\ pc' = [pc EXCEPT ![p] = "done"]
    /\ ret' = [ret EXCEPT ![p] = r]
    /\ buf' = [buf EXCEPT ![p] = NoBuf]

\* process p starts a call
Begin(p, name, a) ==
    /\ Idle(p)
    /\ overlap' = [q \in Procs |->
                      IF q = p THEN \E r \in Procs \ {p} : InFlight(r)
                      ELSE overlap[q] \/ InFlight(q)]
    /\ op' = [op EXCEPT ![p] = name]
    /\ arg' = [arg EXCEPT ![p] = a]

Goto(p, label) == pc' = [pc EXCEPT ![p] = label]

-----------------------------------------------------------------------------
(* Task State Store *)

validStatuses == {<<"running">>, <<"completed">>, <<"failed">>, <<"blocked">>}

\* validateTaskStatus that asks of the two timestamps only that they are
\* strings
validateTaskStatusAnyDate(obj) ==
    IF obj.type # "object" THEN "Task data must be an object"
    ELSE IF ~(IsString(Prop(obj, "status")) /\ Prop(obj, "status").val \in validStatuses)
        THEN "Invalid status"
    ELSE IF ~IsString(Prop(obj, "owner")) \/ Len(trim(Prop(obj, "owner").val)) = 0
        THEN "Owner must be a non-empty string"
    ELSE IF ~IsString(Prop(obj, "details")) THEN "Details must be a string"
    ELSE IF ~IsString(Prop(obj, "started_at"))
        THEN "started_at must be a valid ISO 8601 timestamp"
    ELSE IF ~IsString(Prop(obj, "updated_at"))
        THEN "updated_at must be a valid ISO 8601 timestamp"
    ELSE "ok"

\* validateTaskStatus(obj): "ok" or the message of the Error it throws
validateTaskStatus(obj) ==
    IF obj.type # "object" THEN "Task data must be an object"
    ELSE IF ~(IsString(Prop(obj, "status")) /\ Prop(obj, "status").val \in validStatuses)
        THEN "Invalid status"
    ELSE IF ~IsString(Prop(obj, "owner")) \/ Len(trim(Prop(obj, "owner").val)) = 0
        THEN "Owner must be a non-empty string"
    ELSE IF ~IsString(Prop(obj, "details")) THEN "Details must be a string"
    ELSE IF ~IsString(Prop(obj, "started_at")) \/ ~matchesISO(Prop(obj, "started_at").val)
        THEN "started_at must be a valid ISO 8601 timestamp"
    ELSE IF ~IsString(Prop(obj, "updated_at")) \/ ~matchesISO(Prop(obj, "updated_at").val)
        THEN "updated_at must be a valid ISO 8601 timestamp"
    ELSE "ok"

\* NewTaskStatus that stores owner and details as they were passed
NewTaskStatusUntrimmed(owner, details, timestamp) ==
    [type |-> "object",
     status |-> Str(<<"running">>),
     owner |-> owner,
     details |-> details,
     started_at |-> Str(timestamp),
     updated_at |-> Str(timestamp)]

\* the TaskStatus object create builds
NewTaskStatus(owner, details, timestamp) ==
    [type |-> "object",
     status |-> Str(<<"running">>),
     owner |-> Str(trim(owner.val)),
     details |-> Str(trim(details.val)),
     started_at |-> Str(timestamp),
     updated_at |-> Str(timestamp)]

\* CreateValidation that looks at the length of the arguments as passed
CreateValidationUntrimmed(owner, details) ==
    IF Falsy(owner) \/ ~IsString(owner) \/ Len(owner.val) = 0
        THEN "Owner parameter is required and must be a non-empty string"
    ELSE IF Falsy(details) \/ ~IsString(details) \/ Len(details.val) = 0
        THEN "Details parameter is required and must be a non-empty string"
    ELSE "ok"

\* the argument checks of create: "ok" or the message of the Error
CreateValidation(owner, details) ==
    IF Falsy(owner) \/ ~IsString(owner) \/ Len(trim(owner.val)) = 0
        THEN "Owner parameter is required and must be a non-empty string"
    ELSE IF Falsy(details) \/ ~IsString(details) \/ Len(trim(details.val)) = 0
        THEN "Details parameter is required and must be a non-empty string"
    ELSE "ok"

\* CreateCall that names the record after the instant of the call in the
\* place of randomUUID()
CreateCallClockId(p, owner, details) ==
    /\ Begin(p, "create", [owner |-> owner, details |-> details])
    /\ LET v == CreateValidation(owner, details) IN
       IF v # "ok"
       THEN /\ Finish(p, Thrown("Error", v))
            /\ UNCHANGED <<key, uuids>>
       ELSE /\ uuids < Len(UuidSyms)
            /\ uuids' = uuids + 1
            /\ key' = [key EXCEPT ![p] = toISOString(now)]
            /\ buf' = [buf EXCEPT ![p] =
                          NewTaskStatus(owner, details, toISOString(now))]
            /\ Goto(p, "create_access")
            /\ UNCHANGED ret
    /\ UNCHANGED <<fsVars, now, calls, created, persisted, added>>

\* create(owner, details), up to await ensureTasksDirectory()
CreateCall(p, owner, details) ==
    /\ Begin(p, "create", [owner |-> owner, details |-> details])
    /\ LET v == CreateValidation(owner, details) IN
       IF v # "ok"
       THEN /\ Finish(p, Thrown("Error", v))
            /\ UNCHANGED <<key, uuids>>
       ELSE /\ uuids < Len(UuidSyms)
            /\ uuids' = uuids + 1
            /\ key' = [key EXCEPT ![p] = randomUUID(uuids + 1)]
            /\ buf' = [buf EXCEPT ![p] =
                          NewTaskStatus(owner, details, toISOString(now))]
            /\ Goto(p, "create_access")
            /\ UNCHANGED ret
    /\ UNCHANGED <<fsVars, now, calls, created, persisted, added>>

\* fs.access(TASKS_DIR) of ensureDirectoryExists has settled
CreateAccess(p) ==
    /\ pc[p] = "create_access"
    /\ IF tasksDir THEN Goto(p, "write_open") ELSE Goto(p, "create_mkdir")
    /\ UNCHANGED <<fsVars, now, uuids, op, arg, key, buf, ret, calls, histVars>>

\* CreateMkdir without { recursive: true }: mkdir fails with EEXIST when
\* the directory is there
CreateMkdirExclusive(p) ==
    /\ pc[p] = "create_mkdir"
    /\ IF tasksDir
       THEN /\ Finish(p, Thrown("Error", "Failed to create task"))
            /\ UNCHANGED tasksDir
       ELSE /\ tasksDir' = TRUE
            /\ Goto(p, "write_open")
            /\ UNCHANGED <<buf, ret>>
    /\ UNCHANGED <<taskFiles, checkpointFiles, checkpointsDir, now, uuids, op,
                   arg, key, calls, histVars>>

\* fs.mkdir(TASKS_DIR, { recursive: true }) has succeeded
CreateMkdir(p) ==
    /\ pc[p] = "create_mkdir"
    /\ tasksDir' = TRUE
    /\ Goto(p, "write_open")
    /\ UNCHANGED <<taskFiles, checkpointFiles, checkpointsDir, now, uuids, op,
                   arg, key, buf, ret, calls, histVars>>

\* fs.mkdir(TASKS_DIR, { recursive: true }) has failed
CreateMkdirFails(p) ==
    /\ pc[p] = "create_mkdir"
    /\ Finish(p, Thrown("Error", "Failed to create task"))
    /\ UNCHANGED <<fsVars, now, uuids, op, arg, key, calls, histVars>>

\* the Error a failed fs.writeFile surfaces as, by the catch of the caller
WriteError(name) ==
    IF name = "create" THEN Thrown("Error", "Failed to create task")
    ELSE Thrown("Error", "Failed to update task")

\* fs.writeFile(filePath, ...) of create or update: the file is opened with
\* flag 'w', which creates it or truncates it
TaskWriteOpen(p) ==
    /\ pc[p] = "write_open"
    /\ op[p] \in {"create", "update"}
    /\ taskFiles' = OpenTruncate(taskFiles, key[p])
    /\ Goto(p, "write_data")
    /\ UNCHANGED <<tasksDir, checkpointFiles, checkpointsDir, now, uuids, op,
                   arg, key, buf, ret, calls, histVars>>

\* the open of fs.writeFile fails: the file is untouched
TaskWriteOpenFails(p) ==
    /\ pc[p] = "write_open"
    /\ op[p] \in {"create", "update"}
    /\ Finish(p, WriteError(op[p]))
    /\ UNCHANGED <<fsVars, now, uuids, op, arg, key, calls, histVars>>

\* what create and update return once the write is through
WriteResult(name, k) ==
    IF name = "create" THEN Returned(Str(k)) ELSE Returned(Undefined)

\* fs.writeFile(filePath, JSON.stringify(..., null, 2), 'utf8'): the data is
\* written and the call returns
TaskWriteData(p) ==
    /\ pc[p] = "write_data"
    /\ op[p] \in {"create", "update"}
    /\ \E text \in Overlay(taskFiles[key[p]], JSONstringify(buf[p])) :
          /\ taskFiles' = [taskFiles EXCEPT ![key[p]] = text]
          /\ persisted' =
                IF ParseOk(text)
                THEN [persisted EXCEPT !.tasks = Put(@, key[p], buf[p])]
                ELSE persisted
    /\ created' = IF op[p] = "create" THEN created @@ (key[p] :> buf[p])
                   ELSE created
    /\ Finish(p, WriteResult(op[p], key[p]))
    /\ UNCHANGED <<tasksDir, checkpointFiles, checkpointsDir, now, uuids, op,
                   arg, key, calls, overlap, added>>

\* TaskWriteDataFails that removes the file the failed write has left
TaskWriteDataFailsUnlinks(p) ==
    /\ pc[p] = "write_data"
    /\ op[p] \in {"create", "update"}
    /\ taskFiles' = [k \in DOMAIN taskFiles \ {key[p]} |-> taskFiles[k]]
    /\ Finish(p, WriteError(op[p]))
    /\ UNCHANGED <<tasksDir, checkpointFiles, checkpointsDir, now, uuids, op,
                   arg, key, calls, histVars>>

\* the write of the data fails: the file stays as the open left it
TaskWriteDataFails(p) ==
    /\ pc[p] = "write_data"
    /\ op[p] \in {"create", "update"}
    /\ Finish(p, WriteError(op[p]))
    /\ UNCHANGED <<fsVars, now, uuids, op, arg, key, calls, histVars>>

\* the checks getStatus and update make of task_id
TaskIdValidation(task_id) ==
    IF Falsy(task_id) \/ ~IsString(task_id) \/ Len(trim(task_id.val)) = 0
        THEN "Task ID parameter is required and must be a non-empty string"
    ELSE "ok"

\* getStatus(task_id), up to await fileExists(filePath)
GetStatusCall(p, task_id) ==
    /\ Begin(p, "getStatus", [task_id |-> task_id])
    /\ LET v == TaskIdValidation(task_id) IN
       IF v # "ok"
       THEN /\ Finish(p, Thrown("Error", v))
            /\ UNCHANGED key
       ELSE /\ key' = [key EXCEPT ![p] = trim(task_id.val)]
            /\ Goto(p, "get_access")
            /\ UNCHANGED <<buf, ret>>
    /\ UNCHANGED <<fsVars, now, uuids, calls, created, persisted, added>>

\* fs.access(filePath) of fileExists has settled
GetStatusAccess(p) ==
    /\ pc[p] = "get_access"
    /\ IF Exists(taskFiles, key[p])
       THEN Goto(p, "get_read") /\ UNCHANGED <<ret, buf>>
       ELSE Finish(p, Thrown("TaskNotFoundError", "not found"))
    /\ UNCHANGED <<fsVars, now, uuids, op, arg, key, calls, histVars>>

\* what getStatus makes of the text fs.readFile gave it
GetStatusResult(content) ==
    IF ~ParseOk(content)
        THEN Thrown("Error", "Failed to retrieve task status: Failed to parse task data")
    ELSE IF validateTaskStatus(JSONparse(content)) # "ok"
        THEN Thrown("Error", "Failed to retrieve task status: invalid task data")
    ELSE Returned(JSONparse(content))

\* GetStatusRead that stamps the record it returns as read now, on disk too
GetStatusReadRefreshes(p) ==
    /\ pc[p] = "get_read"
    /\ LET r == GetStatusResult(taskFiles[key[p]]) IN
       IF r.tag = "throw"
       THEN Finish(p, r) /\ UNCHANGED taskFiles
       ELSE LET read == SetProp(r.val, "updated_at", Str(toISOString(now)))
            IN  /\ Finish(p, Returned(read))
                /\ taskFiles' = [taskFiles EXCEPT ![key[p]] = JSONstringify(read)]
    /\ UNCHANGED <<tasksDir, checkpointFiles, checkpointsDir, now, uuids, op,
                   arg, key, calls, histVars>>

\* fs.readFile(filePath, 'utf8') has settled; parse, validate, return
GetStatusRead(p) ==
    /\ pc[p] = "get_read"
    /\ Finish(p, GetStatusResult(taskFiles[key[p]]))
    /\ UNCHANGED <<fsVars, now, uuids, op, arg, key, calls, histVars>>

\* the argument checks of update, in the order update makes them: "ok", or
\* the name and message of what it throws
UpdateValidation(task_id, new_status, new_details) ==
    IF TaskIdValidation(task_id) # "ok"
        THEN Thrown("Error", TaskIdValidation(task_id))
    ELSE IF ~IsString(new_status)
        THEN Thrown("Error", "Status parameter is required and must be a string")
    ELSE IF ~IsString(new_details)
        THEN Thrown("Error", "Details parameter is required and must be a string")
    ELSE IF Len(trim(new_details.val)) = 0
        THEN Thrown("Error", "Details parameter is required and must be a non-empty string")
    ELSE IF new_status.val \notin validStatuses
        THEN Thrown("InvalidStatusError", "Invalid status")
    ELSE Returned(Undefined)

\* UpdateCall with a file path that does not depend on task_id: every
\* update goes to the file of the record created first
UpdateCallOnePath(p, task_id, new_status, new_details) ==
    /\ Begin(p, "update", [task_id |-> task_id, new_status |-> new_status,
                           new_details |-> new_details])
    /\ LET v == UpdateValidation(task_id, new_status, new_details) IN
       IF v.tag = "throw"
       THEN /\ Finish(p, v)
            /\ UNCHANGED key
       ELSE /\ key' = [key EXCEPT ![p] =
                          IF randomUUID(1) \in DOMAIN taskFiles
                          THEN randomUUID(1) ELSE trim(task_id.val)]
            /\ Goto(p, "update_access")
            /\ UNCHANGED <<buf, ret>>
    /\ UNCHANGED <<fsVars, now, uuids, calls, created, persisted, added>>

\* update(task_id, new_status, new_details), up to await fileExists(filePath)
UpdateCall(p, task_id, new_status, new_details) ==
    /\ Begin(p, "update", [task_id |-> task_id, new_status |-> new_status,
                           new_details |-> new_details])
    /\ LET v == UpdateValidation(task_id, new_status, new_details) IN
       IF v.tag = "throw"
       THEN /\ Finish(p, v)
            /\ UNCHANGED key
       ELSE /\ key' = [key EXCEPT ![p] = trim(task_id.val)]
            /\ Goto(p, "update_access")
            /\ UNCHANGED <<buf, ret>>
    /\ UNCHANGED <<fsVars, now, uuids, calls, created, persisted, added>>

\* UpdateAccess without the TaskNotFoundError: a missing record is written
UpdateAccessUpsert(p) ==
    /\ pc[p] = "update_access"
    /\ IF Exists(taskFiles, key[p])
       THEN Goto(p, "update_read") /\ UNCHANGED <<ret, buf>>
       ELSE /\ buf' = [buf EXCEPT ![p] =
                         NewTaskStatus(Str(<<"unknown">>), arg[p].new_details,
                                       toISOString(now))]
            /\ Goto(p, "write_open")
            /\ UNCHANGED ret
    /\ UNCHANGED <<fsVars, now, uuids, op, arg, key, calls, histVars>>

\* fs.access(filePath) of fileExists has settled
UpdateAccess(p) ==
    /\ pc[p] = "update_access"
    /\ IF Exists(taskFiles, key[p])
       THEN Goto(p, "update_read") /\ UNCHANGED <<ret, buf>>
       ELSE Finish(p, Thrown("TaskNotFoundError", "not found"))
    /\ UNCHANGED <<fsVars, now, uuids, op, arg, key, calls, histVars>>

\* UpdatedTask that stamps started_at anew instead of preserving it
UpdatedTaskRestarted(existingTask, new_status, new_details, timestamp) ==
    [type |-> "object",
     status |-> new_status,
     owner |-> existingTask.owner,
     details |-> Str(trim(new_details.val)),
     started_at |-> Str(timestamp),
     updated_at |-> Str(timestamp)]

\* UpdatedTask that stamps updated_at with an instant taken once, when the
\* module was loaded, instead of the instant of the call
UpdatedTaskCachedDate(existingTask, new_status, new_details, timestamp) ==
    [type |-> "object",
     status |-> new_status,
     owner |-> existingTask.owner,
     details |-> Str(trim(new_details.val)),
     started_at |-> existingTask.started_at,
     updated_at |-> Str(toISOString(0))]

\* UpdatedTask that does not carry the owner over from the record it read
UpdatedTaskNoOwner(existingTask, new_status, new_details, timestamp) ==
    [type |-> "object",
     status |-> new_status,
     owner |-> Undefined,
     details |-> Str(trim(new_details.val)),
     started_at |-> existingTask.started_at,
     updated_at |-> Str(timestamp)]

\* UpdatedTask for which completed is final: the status of a completed
\* record stays
UpdatedTaskCompletedIsFinal(existingTask, new_status, new_details, timestamp) ==
    [type |-> "object",
     status |-> IF existingTask.status = Str(<<"completed">>)
                THEN existingTask.status ELSE new_status,
     owner |-> existingTask.owner,
     details |-> Str(trim(new_details.val)),
     started_at |-> existingTask.started_at,
     updated_at |-> Str(timestamp)]

\* the TaskStatus object update builds from the record it read
UpdatedTask(existingTask, new_status, new_details, timestamp) ==
    [type |-> "object",
     status |-> new_status,
     owner |-> existingTask.owner,
     details |-> Str(trim(new_details.val)),
     started_at |-> existingTask.started_at,
     updated_at |-> Str(timestamp)]

\* fs.readFile(filePath, 'utf8') has settled; parse, validate, build the
\* updated record and start fs.writeFile
UpdateRead(p) ==
    /\ pc[p] = "update_read"
    /\ LET content == taskFiles[key[p]] IN
       IF ~ParseOk(content)
       THEN Finish(p, Thrown("Error", "Failed to update task: Failed to parse task data"))
       ELSE IF validateTaskStatus(JSONparse(content)) # "ok"
       THEN Finish(p, Thrown("Error", "Failed to update task: invalid task data"))
       ELSE /\ buf' = [buf EXCEPT ![p] =
                         UpdatedTask(JSONparse(content), arg[p].new_status,
                                     arg[p].new_details, toISOString(now))]
            /\ Goto(p, "write_open")
            /\ UNCHANGED ret
    /\ UNCHANGED <<fsVars, now, uuids, op, arg, key, calls, histVars>>

-----------------------------------------------------------------------------
(* Focus Chain Checkpoint Engine *)

REINJECT_THRESHOLD == 5

\* NewCheckpoint that counts the call that creates the log as a checkpoint
NewCheckpointCounted(taskId, objective) ==
    [type |-> "object",
     taskId |-> taskId,
     objective |-> objective,
     taskCount |-> 1,
     tasks |-> <<>>]

\* the FocusCheckpoint object initializeFocusChain builds; lastReinject is
\* not set
NewCheckpoint(taskId, objective) ==
    [type |-> "object",
     taskId |-> taskId,
     objective |-> objective,
     taskCount |-> 0,
     tasks |-> <<>>]

\* t.status === 'completed'
IsCompleted(t) == Prop(t, "status") = Str(<<"completed">>)
\* t.status !== 'completed'
IsPending(t) == Prop(t, "status") # Str(<<"completed">>)

\* tasks.map(t => `- ${t.description}`)
Descriptions(tasks) ==
    [i \in 1..Len(tasks) |-> Prop(tasks[i], "description")]

\* generateFocusReinject on the entries as they were before the push
generateFocusReinjectBeforePush(checkpoint) ==
    LET tasks == SubSeq(checkpoint.tasks, 1, Len(checkpoint.tasks) - 1)
        completed == SelectSeq(tasks, IsCompleted)
        pending == SelectSeq(tasks, IsPending)
    IN  [type |-> "string",
         taskCount |-> checkpoint.taskCount,
         objective |-> Prop(checkpoint, "objective"),
         completedLength |-> Len(completed),
         completed |-> Descriptions(completed),
         pendingLength |-> Len(pending),
         pending |-> Descriptions(pending)]

\* generateFocusReinject(checkpoint): the parts of the message
generateFocusReinject(checkpoint) ==
    LET completed == SelectSeq(checkpoint.tasks, IsCompleted)
        pending == SelectSeq(checkpoint.tasks, IsPending)
    IN  [type |-> "string",
         taskCount |-> checkpoint.taskCount,
         objective |-> Prop(checkpoint, "objective"),
         completedLength |-> Len(completed),
         completed |-> Descriptions(completed),
         pendingLength |-> Len(pending),
         pending |-> Descriptions(pending)]

\* PushCheckpoint without checkpoint.taskCount++
PushCheckpointUncounted(checkpoint, id, description, status, timestamp) ==
    [checkpoint EXCEPT
        !.tasks = Append(@, [id |-> Str(id),
                             description |-> description,
                             status |-> status,
                             timestamp |-> Str(timestamp)])]

\* PushCheckpoint with unshift in the place of push
PushCheckpointFront(checkpoint, id, description, status, timestamp) ==
    [checkpoint EXCEPT
        !.tasks = <<[id |-> Str(id),
                     description |-> description,
                     status |-> status,
                     timestamp |-> Str(timestamp)]>> \o @,
        !.taskCount = @ + 1]

\* PushCheckpoint that builds the checkpoint anew from the properties the
\* interface requires, without the optional lastReinject
PushCheckpointRebuilt(checkpoint, id, description, status, timestamp) ==
    [type |-> "object",
     taskId |-> checkpoint.taskId,
     objective |-> checkpoint.objective,
     taskCount |-> checkpoint.taskCount + 1,
     tasks |-> Append(checkpoint.tasks, [id |-> Str(id),
                                         description |-> description,
                                         status |-> status,
                                         timestamp |-> Str(timestamp)])]

\* checkpoint.tasks.push({ id, description, status, timestamp });
\* checkpoint.taskCount++
PushCheckpoint(checkpoint, id, description, status, timestamp) ==
    [checkpoint EXCEPT
        !.tasks = Append(@, [id |-> Str(id),
                             description |-> description,
                             status |-> status,
                             timestamp |-> Str(timestamp)]),
        !.taskCount = @ + 1]

\* NeedsReinject with the count of the call to come
NeedsReinjectEarly(checkpoint) ==
    (checkpoint.taskCount + 1) % REINJECT_THRESHOLD = 0

\* NeedsReinject with === REINJECT_THRESHOLD in the place of the remainder
NeedsReinjectOnce(checkpoint) == checkpoint.taskCount = REINJECT_THRESHOLD

\* checkpoint.taskCount % REINJECT_THRESHOLD === 0
NeedsReinject(checkpoint) == checkpoint.taskCount % REINJECT_THRESHOLD = 0

\* what addFocusCheckpoint makes of the checkpoint it read: the object it
\* writes and the value it returns once the write is through
AddedCheckpoint(checkpoint, id, description, status, timestamp) ==
    LET pushed == PushCheckpoint(checkpoint, id, description, status, timestamp)
    IN  IF NeedsReinject(pushed)
        THEN [checkpoint |-> SetProp(pushed, "lastReinject", Str(timestamp)),
              reinjectMessage |-> generateFocusReinject(pushed)]
        ELSE [checkpoint |-> pushed, reinjectMessage |-> Null]

\* initializeFocusChain(taskId, objective), up to await ensureCheckpointsDir()
InitializeCall(p, taskId, objective) ==
    /\ Begin(p, "initializeFocusChain",
             [taskId |-> taskId, objective |-> objective])
    /\ calls' = calls + 1
    /\ key' = [key EXCEPT ![p] = taskId.val]
    /\ added' = Put(added, taskId.val,
                    [explicit |-> TRUE, calls |-> 0, messages |-> 0])
    /\ Goto(p, "init_mkdir")
    /\ UNCHANGED <<fsVars, now, uuids, buf, ret, created, persisted>>

\* the objective of the checkpoint being initialized: the argument of
\* initializeFocusChain, which addFocusCheckpoint calls with its description
InitialObjective(p) ==
    IF op[p] = "initializeFocusChain" THEN arg[p].objective
    ELSE arg[p].description

\* InitializeMkdir that keeps the log the task has, when it has one, and
\* builds a new checkpoint only for a task without a log
InitializeMkdirKeeps(p) ==
    /\ pc[p] = "init_mkdir"
    /\ checkpointsDir' = TRUE
    /\ buf' = [buf EXCEPT ![p] =
                  [checkpoint |->
                      IF Exists(checkpointFiles, key[p])
                            /\ ParseOk(checkpointFiles[key[p]])
                      THEN JSONparse(checkpointFiles[key[p]])
                      ELSE NewCheckpoint(arg[p].taskId, InitialObjective(p)),
                   reinjectMessage |-> Null]]
    /\ Goto(p, "checkpoint_open")
    /\ UNCHANGED <<taskFiles, tasksDir, checkpointFiles, now, uuids, op, arg,
                   key, ret, calls, histVars>>

\* InitializeMkdir that makes TASKS_DIR in the place of CHECKPOINTS_DIR
InitializeMkdirTasksDir(p) ==
    /\ pc[p] = "init_mkdir"
    /\ tasksDir' = TRUE
    /\ buf' = [buf EXCEPT ![p] =
                  [checkpoint |-> NewCheckpoint(arg[p].taskId, InitialObjective(p)),
                   reinjectMessage |-> Null]]
    /\ Goto(p, "checkpoint_open")
    /\ UNCHANGED <<taskFiles, checkpointsDir, checkpointFiles, now, uuids, op,
                   arg, key, ret, calls, histVars>>

\* fs.mkdir(CHECKPOINTS_DIR, { recursive: true }) has succeeded; build the
\* checkpoint and start fs.writeFile
InitializeMkdir(p) ==
    /\ pc[p] = "init_mkdir"
    /\ checkpointsDir' = TRUE
    /\ buf' = [buf EXCEPT ![p] =
                  [checkpoint |-> NewCheckpoint(arg[p].taskId, InitialObjective(p)),
                   reinjectMessage |-> Null]]
    /\ Goto(p, "checkpoint_open")
    /\ UNCHANGED <<taskFiles, tasksDir, checkpointFiles, now, uuids, op, arg,
                   key, ret, calls, histVars>>

\* fs.mkdir(CHECKPOINTS_DIR, { recursive: true }) has failed
InitializeMkdirFails(p) ==
    /\ pc[p] = "init_mkdir"
    /\ Finish(p, Thrown("Error", "Failed to create checkpoints directory"))
    /\ UNCHANGED <<fsVars, now, uuids, op, arg, key, calls, histVars>>

\* fs.writeFile(filePath, JSON.stringify(checkpoint, null, 2)): the file is
\* opened with flag 'w', which creates it or truncates it
CheckpointWriteOpen(p) ==
    /\ pc[p] = "checkpoint_open"
    /\ checkpointFiles' = OpenTruncate(checkpointFiles, key[p])
    /\ Goto(p, "checkpoint_data")
    /\ UNCHANGED <<taskFiles, tasksDir, checkpointsDir, now, uuids, op, arg,
                   key, buf, ret, calls, histVars>>

\* the open of fs.writeFile fails with a code other than ENOENT: the file
\* is untouched and the error goes to the caller
CheckpointWriteOpenFails(p) ==
    /\ pc[p] = "checkpoint_open"
    /\ Finish(p, Thrown("Error", "EACCES"))
    /\ UNCHANGED <<fsVars, now, uuids, op, arg, key, calls, histVars>>

\* what initializeFocusChain and addFocusCheckpoint return once the write
\* is through
CheckpointResult(name, b) ==
    IF name = "initializeFocusChain" THEN Returned(Undefined)
    ELSE Returned(b.reinjectMessage)

\* fs.writeFile(filePath, JSON.stringify(checkpoint, null, 2)): the data is
\* written and the call returns
CheckpointWriteData(p) ==
    /\ pc[p] = "checkpoint_data"
    /\ \E text \in Overlay(checkpointFiles[key[p]],
                           JSONstringify(buf[p].checkpoint)) :
          /\ checkpointFiles' = [checkpointFiles EXCEPT ![key[p]] = text]
          /\ persisted' =
                IF ParseOk(text)
                THEN [persisted EXCEPT
                         !.checkpoints = Put(@, key[p], buf[p].checkpoint)]
                ELSE persisted
    /\ Finish(p, CheckpointResult(op[p], buf[p]))
    /\ added' = IF CheckpointResult(op[p], buf[p]).val \in {Null, Undefined}
                THEN added
                ELSE [added EXCEPT ![key[p]].messages = @ + 1]
    /\ UNCHANGED <<taskFiles, tasksDir, checkpointsDir, now, uuids, op, arg,
                   key, calls, overlap, created>>

\* the write of the data fails: the file stays as the open left it
CheckpointWriteDataFails(p) ==
    /\ pc[p] = "checkpoint_data"
    /\ Finish(p, Thrown("Error", "ENOSPC"))
    /\ UNCHANGED <<fsVars, now, uuids, op, arg, key, calls, histVars>>

\* addFocusCheckpoint(taskId, description, status), up to
\* await fs.readFile(filePath, 'utf8')
AddCall(p, taskId, description, status) ==
    /\ Begin(p, "addFocusCheckpoint",
             [taskId |-> taskId, description |-> description,
              status |-> status])
    /\ calls' = calls + 1
    /\ key' = [key EXCEPT ![p] = taskId.val]
    /\ added' = Put(added, taskId.val,
                    IF taskId.val \in DOMAIN added
                    THEN [added[taskId.val] EXCEPT !.calls = @ + 1]
                    ELSE [explicit |-> FALSE, calls |-> 1, messages |-> 0])
    /\ Goto(p, "add_read")
    /\ UNCHANGED <<fsVars, now, uuids, buf, ret, created, persisted>>

\* checkpoint.tasks.push is there to call: checkpoint is an object with an
\* array for tasks
HasTasks(checkpoint) ==
    checkpoint.type = "object" /\ "tasks" \in DOMAIN checkpoint

\* fs.readFile(filePath, 'utf8') has settled.  ENOENT: the catch calls
\* initializeFocusChain(taskId, description).  A text that does not parse:
\* the SyntaxError goes to the caller.  A value with no tasks to push to:
\* the TypeError goes to the caller.  Otherwise push the checkpoint,
\* count it, build the message at every REINJECT_THRESHOLD-th one, and
\* start fs.writeFile.
AddRead(p) ==
    /\ pc[p] = "add_read"
    /\ IF ~Exists(checkpointFiles, key[p])
       THEN /\ Goto(p, "init_mkdir")
            /\ UNCHANGED <<uuids, buf, ret>>
       ELSE IF ~ParseOk(checkpointFiles[key[p]])
       THEN /\ Finish(p, Thrown("SyntaxError", "Unexpected end of JSON input"))
            /\ UNCHANGED uuids
       ELSE IF ~HasTasks(JSONparse(checkpointFiles[key[p]]))
       THEN /\ Finish(p, Thrown("TypeError", "Cannot read properties of undefined"))
            /\ UNCHANGED uuids
       ELSE /\ uuids < Len(UuidSyms)
            /\ uuids' = uuids + 1
            /\ buf' = [buf EXCEPT ![p] =
                          AddedCheckpoint(JSONparse(checkpointFiles[key[p]]),
                                          randomUUID(uuids + 1),
                                          arg[p].description, arg[p].status,
                                          toISOString(now))]
            /\ Goto(p, "checkpoint_open")
            /\ UNCHANGED ret
    /\ UNCHANGED <<fsVars, now, op, arg, key, calls, histVars>>

\* getFocusStatus(taskId), up to await fs.readFile(filePath, 'utf8')
GetFocusStatusCall(p, taskId) ==
    /\ Begin(p, "getFocusStatus", [taskId |-> taskId])
    /\ calls' = calls + 1
    /\ key' = [key EXCEPT ![p] = taskId.val]
    /\ Goto(p, "focus_read")
    /\ UNCHANGED <<fsVars, now, uuids, buf, ret, created, persisted, added>>

\* what getFocusStatus makes of the outcome of fs.readFile
GetFocusStatusResult(dir, name) ==
    IF ~Exists(dir, name) THEN Returned(Null)
    ELSE IF ~ParseOk(dir[name])
        THEN Thrown("SyntaxError", "Unexpected end of JSON input")
    ELSE Returned(JSONparse(dir[name]))

\* fs.readFile(filePath, 'utf8') has settled; parse and return, or null on
\* ENOENT
GetFocusStatusRead(p) ==
    /\ pc[p] = "focus_read"
    /\ Finish(p, GetFocusStatusResult(checkpointFiles, key[p]))
    /\ UNCHANGED <<fsVars, now, uuids, op, arg, key, calls, histVars>>

-----------------------------------------------------------------------------
(* The environment *)

\* time passes
Tick ==
    /\ now < MaxClock
    /\ now' = now + 1
    /\ UNCHANGED <<fsVars, uuids, pc, op, arg, key, buf, ret, calls, histVars>>

\* the caller takes the result of a finished call; the process is free again
Return(p) ==
    /\ Done(p)
    /\ pc' = [pc EXCEPT ![p] = "idle"]
    /\ op' = [op EXCEPT ![p] = "none"]
    /\ arg' = [arg EXCEPT ![p] = NoArg]
    /\ key' = [key EXCEPT ![p] = <<>>]
    /\ ret' = [ret EXCEPT ![p] = NoRet]
    /\ overlap' = [overlap EXCEPT ![p] = FALSE]
    /\ UNCHANGED <<fsVars, now, uuids, buf, calls, created, persisted, added>>

Init ==
    /\ taskFiles = <<>>
    /\ tasksDir = FALSE
    /\ checkpointFiles = <<>>
    /\ checkpointsDir = FALSE
    /\ now = 0
    /\ uuids = 0
    /\ pc = [p \in Procs |-> "idle"]
    /\ op = [p \in Procs |-> "none"]
    /\ arg = [p \in Procs |-> NoArg]
    /\ key = [p \in Procs |-> <<>>]
    /\ buf = [p \in Procs |-> NoBuf]
    /\ ret = [p \in Procs |-> NoRet]
    /\ overlap = [p \in Procs |-> FALSE]
    /\ created = <<>>
    /\ persisted = [tasks |-> <<>>, checkpoints |-> <<>>]
    /\ added = <<>>
    /\ calls = 0

\* the identifiers create has returned so far
Known == DOMAIN created

\* the steps of the Task State Store's calls in flight
StoreStep(p) ==
    \/ CreateAccess(p)
    \/ CreateMkdir(p)
    \/ TaskWriteOpen(p)
    \/ TaskWriteData(p)
    \/ GetStatusAccess(p)
    \/ GetStatusRead(p)
    \/ UpdateAccess(p)
    \/ UpdateRead(p)
    \/ Return(p)

\* a filesystem operation of a call of the Task State Store fails
StoreFault(p) ==
    \/ CreateMkdirFails(p)
    \/ TaskWriteOpenFails(p)
    \/ TaskWriteDataFails(p)

\* Concurrent callers of the Task State Store, working on one task
Next ==
    \/ \E p \in Procs :
          \/ uuids = 0 /\ CreateCall(p, Str(<<"agent-1">>), Str(<<"start">>))
          \/ \E id \in Known : GetStatusCall(p, Str(id))
          \/ \E id \in Known, s \in {<<"completed">>, <<"failed">>},
                d \in {<<"x">>, <<"y">>} :
                UpdateCall(p, Str(id), Str(s), Str(d))
    \/ \E p \in Procs : StoreStep(p) \/ StoreFault(p)
    \/ Tick

Spec == Init /\ [][Next]_vars

-----------------------------------------------------------------------------
(* One caller of the Task State Store, one call at a time, no filesystem   *)
(* fault, arguments of every shape                                         *)

Owners == {Str(<<"agent-1">>), Str(<<WS, "agent-2", WS>>), Str(<<WS>>), Null}

Details == {Str(<<"x">>), Str(<<WS, "y", WS>>), Str(<<>>), Str(<<WS>>),
            Null, Num123}

Statuses == {Str(<<"completed">>), Str(<<"failed">>), Str(<<"running">>),
             Str(<<"pending">>), Str(<<>>), Null, Num123}

TaskIds ==
    {Str(id) : id \in Known} \cup {Str(<<WS>> \o id \o <<WS>>) : id \in Known}
    \cup {Str(<<"non-existent-task-id">>), Str(<<>>), Str(<<WS>>), Null, Num123}

SeqNext ==
    \/ \E owner \in Owners, details \in Details :
          uuids = 0 /\ CreateCall("p1", owner, details)
    \/ \E id \in TaskIds : GetStatusCall("p1", id)
    \/ \E id \in TaskIds, s \in Statuses, d \in Details :
          UpdateCall("p1", id, s, d)
    \/ StoreStep("p1")
    \/ Tick

SpecSeq == Init /\ [][SeqNext]_vars

-----------------------------------------------------------------------------
(* Callers of the Focus Chain Checkpoint Engine *)

\* the steps of the checkpoint engine's calls in flight
FocusStep(p) ==
    \/ InitializeMkdir(p)
    \/ CheckpointWriteOpen(p)
    \/ CheckpointWriteData(p)
    \/ AddRead(p)
    \/ GetFocusStatusRead(p)
    \/ Return(p)

\* a filesystem operation of a call of the checkpoint engine fails
FocusFault(p) ==
    \/ InitializeMkdirFails(p)
    \/ CheckpointWriteOpenFails(p)
    \/ CheckpointWriteDataFails(p)

TheTask == Str(<<"task-1">>)
TheObjective == Str(<<"Ship", WS, "v1">>)

\* Concurrent callers of the checkpoint engine, working on one task
FocusNext ==
    \/ \E p \in Procs :
          /\ calls < MaxFocusCalls
          /\ \/ InitializeCall(p, TheTask, TheObjective)
             \/ AddCall(p, TheTask, Str(<<"step-a">>), Str(<<"running">>))
             \/ AddCall(p, TheTask, Str(<<"step-b">>), Str(<<"completed">>))
             \/ GetFocusStatusCall(p, TheTask)
    \/ \E p \in Procs : FocusStep(p) \/ FocusFault(p)
    \/ Tick

SpecFocus == Init /\ [][FocusNext]_vars

\* One caller, one call at a time, no filesystem fault, the clock at rest
FocusSeqNext ==
    \/ /\ calls < MaxSeqFocusCalls
       /\ \/ InitializeCall("p1", TheTask, TheObjective)
          \/ \E d \in {<<"step-a">>, <<"step-b">>},
                s \in {<<"completed">>, <<"running">>} :
                AddCall("p1", TheTask, Str(d), Str(s))
    \/ InitializeMkdir("p1")
    \/ CheckpointWriteOpen("p1")
    \/ CheckpointWriteData("p1")
    \/ AddRead("p1")
    \/ Return("p1")

SpecFocusSeq == Init /\ [][FocusSeqNext]_vars

\* One caller, one call at a time, no filesystem fault, every checkpoint
\* alike: long runs
FocusLongNext ==
    \/ /\ calls < MaxLongFocusCalls
       /\ \/ InitializeCall("p1", TheTask, TheObjective)
          \/ AddCall("p1", TheTask, Str(<<"step">>), Str(<<"running">>))
          \/ GetFocusStatusCall("p1", TheTask)
    \/ FocusStep("p1")
    \/ Tick

SpecFocusLong == Init /\ [][FocusLongNext]_vars

-----------------------------------------------------------------------------
(* Concurrent callers of create, filesystem faults, the clock at rest;     *)
(* getStatus on every identifier randomUUID() has produced                 *)

\* the identifiers randomUUID() has produced
Issued == {randomUUID(n) : n \in 1..uuids}

CreateNext ==
    \/ \E p \in Procs :
          \/ \E owner \in {Str(<<"agent-1">>), Str(<<WS, "agent-2", WS>>)} :
                uuids < MaxCreates /\ CreateCall(p, owner, Str(<<"start">>))
          \/ \E id \in Issued : GetStatusCall(p, Str(id))
    \/ \E p \in Procs :
          \/ CreateAccess(p)
          \/ CreateMkdir(p)
          \/ TaskWriteOpen(p)
          \/ TaskWriteData(p)
          \/ GetStatusAccess(p)
          \/ GetStatusRead(p)
          \/ Return(p)
          \/ StoreFault(p)

SpecCreate == Init /\ [][CreateNext]_vars

\* One caller of create and getStatus, one call at a time, no filesystem
\* fault, arguments of every shape
CreateOwners == Owners \cup {Str(<<>>), Num123, Undefined}

CreateSeqNext ==
    \/ \E owner \in CreateOwners, details \in Details :
          uuids < MaxSeqCreates /\ CreateCall("p1", owner, details)
    \/ \E id \in Issued : GetStatusCall("p1", Str(id))
    \/ CreateAccess("p1")
    \/ CreateMkdir("p1")
    \/ TaskWriteOpen("p1")
    \/ TaskWriteData("p1")
    \/ GetStatusAccess("p1")
    \/ GetStatusRead("p1")
    \/ Return("p1")
    \/ Tick

SpecCreateSeq == Init /\ [][CreateSeqNext]_vars

-----------------------------------------------------------------------------
(* getStatus on files another program has written to .alfredo/tasks: text  *)
(* that is not JSON, JSON values that are not objects, objects with fields *)
(* missing or of every shape                                               *)

StoredStatuses == {Str(<<"running">>), Str(<<"blocked">>),
                   Str(<<"invalid-status">>), Undefined, Num123}
StoredOwners == {Str(<<"test-owner">>), Str(<<>>), Str(<<WS>>), Undefined,
                 Num123}
StoredDetails == {Str(<<"Test", WS, "details">>), Str(<<>>), Undefined, Num123}
StoredTimestamps == {Str(toISOString(1)), Str(<<"1">>),
                     Str(<<"invalid-timestamp">>), Str(<<"0", "1", "Z">>),
                     Undefined, Num123}

\* what the file of a task can hold
StoredTaskFiles ==
    {Garbled, EmptyFile}
    \cup {JSONstringify(v) : v \in {Null, Num123, Str(<<"x">>)}}
    \cup {JSONstringify([type |-> "object", status |-> s, owner |-> o,
                         details |-> d, started_at |-> t1, updated_at |-> t2]) :
             s \in StoredStatuses, o \in StoredOwners, d \in StoredDetails,
             t1 \in StoredTimestamps, t2 \in StoredTimestamps}

CodecInit ==
    /\ taskFiles \in {(<<"test-task">> :> content) : content \in StoredTaskFiles}
    /\ tasksDir = TRUE
    /\ checkpointFiles = <<>>
    /\ checkpointsDir = FALSE
    /\ now = 0
    /\ uuids = 0
    /\ pc = [p \in Procs |-> "idle"]
    /\ op = [p \in Procs |-> "none"]
    /\ arg = [p \in Procs |-> NoArg]
    /\ key = [p \in Procs |-> <<>>]
    /\ buf = [p \in Procs |-> NoBuf]
    /\ ret = [p \in Procs |-> NoRet]
    /\ overlap = [p \in Procs |-> FALSE]
    /\ created = <<>>
    /\ persisted = [tasks |-> <<>>, checkpoints |-> <<>>]
    /\ added = <<>>
    /\ calls = 0

CodecNext ==
    \/ \E id \in {<<"test-task">>, <<WS, "test-task">>} :
          GetStatusCall("p1", Str(id))
    \/ GetStatusAccess("p1")
    \/ GetStatusRead("p1")
    \/ Return("p1")

SpecCodec == CodecInit /\ [][CodecNext]_vars

-----------------------------------------------------------------------------

\* update by one caller on the file of test-task as another program may
\* have left it; no filesystem fault, the clock at rest
CodecUpdateNext ==
    \/ \E s \in {<<"completed">>, <<"failed">>} :
          UpdateCall("p1", Str(<<"test-task">>), Str(s), Str(<<"done">>))
    \/ UpdateAccess("p1")
    \/ UpdateRead("p1")
    \/ TaskWriteOpen("p1")
    \/ TaskWriteData("p1")
    \/ Return("p1")

SpecCodecUpdate == CodecInit /\ [][CodecUpdateNext]_vars

(* The checkpoint engine on files another program has written to           *)
(* .alfredo/checkpoints: text that is not JSON, JSON values that are not   *)
(* objects, logs with fields missing or of every shape                     *)

\* a checkpoint as addFocusCheckpoint records it, with the given timestamp
StoredEntry(id, timestamp) ==
    [id |-> Str(<<id>>),
     description |-> Str(<<"step">>),
     status |-> Str(<<"running">>),
     timestamp |-> timestamp]

StoredObjectives == {TheObjective, Undefined, Num123}

StoredEntries ==
    {<<>>,
     <<StoredEntry("e1", Str(toISOString(1)))>>,
     <<StoredEntry("e1", Str(<<"invalid-timestamp">>))>>,
     <<StoredEntry("e1", Str(toISOString(0))), StoredEntry("e2", Undefined)>>}

\* what the file of a checkpoint log can hold
StoredLogFiles ==
    {Garbled, EmptyFile}
    \cup {JSONstringify(v) : v \in {Null, Num123}}
    \cup {JSONstringify([type |-> "object", taskId |-> TheTask,
                         objective |-> o, taskCount |-> 0,
                         lastReinject |-> Undefined]) :
             o \in StoredObjectives}
    \cup {JSONstringify([type |-> "object", taskId |-> TheTask,
                         objective |-> o, taskCount |-> Len(entries),
                         tasks |-> entries, lastReinject |-> Undefined]) :
             o \in StoredObjectives, entries \in StoredEntries}

StoredLogInit ==
    /\ taskFiles = <<>>
    /\ tasksDir = FALSE
    /\ checkpointFiles \in {(TheTask.val :> content) : content \in StoredLogFiles}
    /\ checkpointsDir = TRUE
    /\ now = 0
    /\ uuids = 0
    /\ pc = [p \in Procs |-> "idle"]
    /\ op = [p \in Procs |-> "none"]
    /\ arg = [p \in Procs |-> NoArg]
    /\ key = [p \in Procs |-> <<>>]
    /\ buf = [p \in Procs |-> NoBuf]
    /\ ret = [p \in Procs |-> NoRet]
    /\ overlap = [p \in Procs |-> FALSE]
    /\ created = <<>>
    /\ persisted = [tasks |-> <<>>, checkpoints |-> <<>>]
    /\ added = <<>>
    /\ calls = 0

StoredLogNext ==
    \/ /\ calls < MaxStoredLogCalls
       /\ \/ AddCall("p1", TheTask, Str(<<"step-a">>), Str(<<"running">>))
          \/ GetFocusStatusCall("p1", TheTask)
    \/ AddRead("p1")
    \/ CheckpointWriteOpen("p1")
    \/ CheckpointWriteData("p1")
    \/ GetFocusStatusRead("p1")
    \/ Return("p1")
    \/ Tick

SpecStoredLog == StoredLogInit /\ [][StoredLogNext]_vars

-----------------------------------------------------------------------------

(* Concurrent callers of update on one task, no filesystem fault           *)

UpdateNext ==
    \/ \E p \in Procs :
          \/ uuids = 0 /\ CreateCall(p, Str(<<"agent-1">>), Str(<<"start">>))
          \/ \E id \in Known : GetStatusCall(p, Str(id))
          \/ \E id \in Known, s \in {<<"completed">>, <<"failed">>},
                d \in {<<"x">>, <<"y">>} :
                UpdateCall(p, Str(id), Str(s), Str(d))
    \/ \E p \in Procs : StoreStep(p)
    \/ Tick

SpecUpdate == Init /\ [][UpdateNext]_vars

-----------------------------------------------------------------------------

\* Concurrent addFocusCheckpoint calls on a log that initializeFocusChain
\* has written before any of them starts, no filesystem fault, the clock at
\* rest
AddRaceNext ==
    \/ calls = 0 /\ InitializeCall("p1", TheTask, TheObjective)
    \/ \E p \in Procs :
          /\ calls < MaxFocusCalls
          /\ TheTask.val \in DOMAIN persisted.checkpoints
          /\ \/ AddCall(p, TheTask, Str(<<"step-a">>), Str(<<"running">>))
             \/ AddCall(p, TheTask, Str(<<"step-b">>), Str(<<"completed">>))
             \/ GetFocusStatusCall(p, TheTask)
    \/ \E p \in Procs : FocusStep(p)

SpecAddRace == Init /\ [][AddRaceNext]_vars

\* the agents at work, each on a task of its own
TaskOwner(p) == IF p = "p1" THEN Str(<<"agent-1">>) ELSE Str(<<"agent-2">>)

\* the task of the agent process p is
OwnTasks(p) == {id \in Known : created[id].owner = TaskOwner(p)}

\* Two agents at work concurrently, each on the task it has created, with
\* the Task State Store and with the checkpoint engine; no filesystem
\* fault, the clock at rest
TwoTasksNext ==
    \/ \E p \in Procs :
          \/ OwnTasks(p) = {} /\ CreateCall(p, TaskOwner(p), Str(<<"start">>))
          \/ \E id \in OwnTasks(p) : GetStatusCall(p, Str(id))
          \/ \E id \in OwnTasks(p), d \in {<<"x">>, <<"y">>} :
                UpdateCall(p, Str(id), Str(<<"completed">>), Str(d))
          \/ /\ calls < MaxTwoTasksFocusCalls
             /\ \E id \in OwnTasks(p) :
                   \/ InitializeCall(p, Str(id), TheObjective)
                   \/ AddCall(p, Str(id), Str(<<"step-a">>), Str(<<"running">>))
    \/ \E p \in Procs :
          \/ CreateAccess(p)
          \/ CreateMkdir(p)
          \/ TaskWriteOpen(p)
          \/ TaskWriteData(p)
          \/ GetStatusAccess(p)
          \/ GetStatusRead(p)
          \/ UpdateAccess(p)
          \/ UpdateRead(p)
          \/ InitializeMkdir(p)
          \/ CheckpointWriteOpen(p)
          \/ CheckpointWriteData(p)
          \/ AddRead(p)
          \/ Return(p)

SpecTwoTasks == Init /\ [][TwoTasksNext]_vars

\* the task whose log the agent process p is initializes
TaskOf(p) == IF p = "p1" THEN TheTask ELSE Str(<<"task-2">>)

\* Callers that start create while .alfredo/tasks does not exist, and
\* initializeFocusChain while .alfredo/checkpoints does not exist; no
\* filesystem fault, the clock at rest
EnsureDirNext ==
    \/ \E p \in Procs :
          \/ ~tasksDir /\ CreateCall(p, TaskOwner(p), Str(<<"start">>))
          \/ ~checkpointsDir /\ InitializeCall(p, TaskOf(p), TheObjective)
    \/ \E p \in Procs :
          \/ CreateAccess(p)
          \/ CreateMkdir(p)
          \/ TaskWriteOpen(p)
          \/ TaskWriteData(p)
          \/ InitializeMkdir(p)
          \/ CheckpointWriteOpen(p)
          \/ CheckpointWriteData(p)
          \/ Return(p)

SpecEnsureDir == Init /\ [][EnsureDirNext]_vars

\* the log that initializeFocusChain and n addFocusCheckpoint calls, made
\* one after the other at instant 0, leave
RECURSIVE LogAfter(_)
LogAfter(n) ==
    IF n = 0 THEN NewCheckpoint(TheTask, TheObjective)
    ELSE AddedCheckpoint(LogAfter(n - 1), randomUUID(n), Str(<<"step">>),
                         Str(<<"running">>), toISOString(0)).checkpoint

\* The checkpoint engine with the log of the task one checkpoint short of
\* the first reinjection
NearThresholdInit ==
    /\ taskFiles = <<>>
    /\ tasksDir = FALSE
    /\ checkpointFiles =
          (TheTask.val :> JSONstringify(LogAfter(REINJECT_THRESHOLD - 1)))
    /\ checkpointsDir = TRUE
    /\ now = 0
    /\ uuids = REINJECT_THRESHOLD - 1
    /\ pc = [p \in Procs |-> "idle"]
    /\ op = [p \in Procs |-> "none"]
    /\ arg = [p \in Procs |-> NoArg]
    /\ key = [p \in Procs |-> <<>>]
    /\ buf = [p \in Procs |-> NoBuf]
    /\ ret = [p \in Procs |-> NoRet]
    /\ overlap = [p \in Procs |-> FALSE]
    /\ created = <<>>
    /\ persisted = [tasks |-> <<>>,
                    checkpoints |->
                        (TheTask.val :> LogAfter(REINJECT_THRESHOLD - 1))]
    /\ added = (TheTask.val :>
                   [explicit |-> TRUE, calls |-> REINJECT_THRESHOLD - 1,
                    messages |-> 0])
    /\ calls = 0

\* Concurrent callers of the checkpoint engine on that log; no filesystem
\* fault
NearThresholdNext ==
    \/ \E p \in Procs :
          /\ calls < MaxFocusCalls
          /\ \/ InitializeCall(p, TheTask, TheObjective)
             \/ AddCall(p, TheTask, Str(<<"step">>), Str(<<"running">>))
    \/ \E p \in Procs :
          \/ InitializeMkdir(p)
          \/ CheckpointWriteOpen(p)
          \/ CheckpointWriteData(p)
          \/ AddRead(p)
          \/ Return(p)
    \/ Tick

SpecNearThreshold == NearThresholdInit /\ [][NearThresholdNext]_vars

\* One caller of the Task State Store and one caller of the checkpoint
\* engine at work concurrently, the latter on a task that has no record;
\* no filesystem fault, the clock at rest
IndependentNext ==
    \/ uuids = 0 /\ CreateCall("p1", Str(<<"agent-1">>), Str(<<"start">>))
    \/ \E id \in Known : GetStatusCall("p1", Str(id))
    \/ \E id \in Known :
          UpdateCall("p1", Str(id), Str(<<"completed">>), Str(<<"x">>))
    \/ /\ calls < MaxFocusCalls
       /\ \/ InitializeCall("p2", TheTask, TheObjective)
          \/ AddCall("p2", TheTask, Str(<<"step-a">>), Str(<<"running">>))
          \/ GetFocusStatusCall("p2", TheTask)
    \/ StoreStep("p1")
    \/ FocusStep("p2")

SpecIndependent == Init /\ [][IndependentNext]_vars

\* One caller that creates a task and updates it to any of the four
\* statuses, one update after the other, and one that reads the record;
\* no filesystem fault
TransitionsNext ==
    \/ uuids = 0 /\ CreateCall("p1", Str(<<"agent-1">>), Str(<<"start">>))
    \/ \E id \in Known, s \in validStatuses :
          UpdateCall("p1", Str(id), Str(s), Str(<<"x">>))
    \/ \E id \in Known : GetStatusCall("p2", Str(id))
    \/ \E p \in Procs : StoreStep(p)
    \/ Tick

SpecTransitions == Init /\ [][TransitionsNext]_vars

\* Concurrent addFocusCheckpoint calls on the log initialized once that
\* holds four checkpoints; no filesystem fault
NearThresholdAddsNext ==
    \/ \E p \in Procs :
          /\ calls < MaxFocusCalls
          /\ AddCall(p, TheTask, Str(<<"step">>), Str(<<"running">>))
    \/ \E p \in Procs :
          \/ CheckpointWriteOpen(p)
          \/ CheckpointWriteData(p)
          \/ AddRead(p)
          \/ Return(p)
    \/ Tick

SpecNearThresholdAdds == NearThresholdInit /\ [][NearThresholdAddsNext]_vars

-----------------------------------------------------------------------------
(* The update_task_with_focus tool of src/src/server.ts: update, then      *)
(* addFocusCheckpoint with the same arguments; one caller, no filesystem   *)
(* fault                                                                   *)

\* the call of process p is the update of the tool update_task_with_focus
UpdateOfTool(p) == op[p] = "update" /\ "tool" \in DOMAIN arg[p]

\* case 'update_task_with_focus', up to the first await within
\* await update(args.taskId, args.newStatus, args.newDetails)
UpdateWithFocusCall(p, taskId, newStatus, newDetails) ==
    /\ Begin(p, "update", [task_id |-> taskId, new_status |-> newStatus,
                           new_details |-> newDetails,
                           tool |-> "update_task_with_focus"])
    /\ LET v == UpdateValidation(taskId, newStatus, newDetails) IN
       IF v.tag = "throw"
       THEN /\ Finish(p, v)
            /\ UNCHANGED key
       ELSE /\ key' = [key EXCEPT ![p] = trim(taskId.val)]
            /\ Goto(p, "update_access")
            /\ UNCHANGED <<buf, ret>>
    /\ UNCHANGED <<fsVars, now, uuids, calls, created, persisted, added>>

\* the continuation of the tool after await update(...), whatever update
\* has done
UpdateWithFocusAddAlways(p) ==
    /\ Done(p) /\ UpdateOfTool(p)
    /\ op' = [op EXCEPT ![p] = "addFocusCheckpoint"]
    /\ arg' = [arg EXCEPT ![p] = [taskId |-> arg[p].task_id,
                                  description |-> arg[p].new_details,
                                  status |-> arg[p].new_status]]
    /\ key' = [key EXCEPT ![p] = arg[p].task_id.val]
    /\ ret' = [ret EXCEPT ![p] = NoRet]
    /\ overlap' = [q \in Procs |->
                      overlap[q] \/ \E r \in Procs \ {p} : InFlight(r)]
    /\ calls' = calls + 1
    /\ added' = Put(added, arg[p].task_id.val,
                    IF arg[p].task_id.val \in DOMAIN added
                    THEN [added[arg[p].task_id.val] EXCEPT !.calls = @ + 1]
                    ELSE [explicit |-> FALSE, calls |-> 1, messages |-> 0])
    /\ Goto(p, "add_read")
    /\ UNCHANGED <<fsVars, now, uuids, buf, created, persisted>>

\* await update(...) has returned: the tool goes on to
\* await addFocusCheckpoint(args.taskId, args.newDetails, args.newStatus),
\* up to its await fs.readFile(filePath, 'utf8')
UpdateWithFocusAdd(p) ==
    /\ Done(p) /\ UpdateOfTool(p)
    /\ ret[p].tag = "return"
    /\ op' = [op EXCEPT ![p] = "addFocusCheckpoint"]
    /\ arg' = [arg EXCEPT ![p] = [taskId |-> arg[p].task_id,
                                  description |-> arg[p].new_details,
                                  status |-> arg[p].new_status]]
    /\ key' = [key EXCEPT ![p] = arg[p].task_id.val]
    /\ ret' = [ret EXCEPT ![p] = NoRet]
    /\ overlap' = [q \in Procs |->
                      overlap[q] \/ \E r \in Procs \ {p} : InFlight(r)]
    /\ calls' = calls + 1
    /\ added' = Put(added, arg[p].task_id.val,
                    IF arg[p].task_id.val \in DOMAIN added
                    THEN [added[arg[p].task_id.val] EXCEPT !.calls = @ + 1]
                    ELSE [explicit |-> FALSE, calls |-> 1, messages |-> 0])
    /\ Goto(p, "add_read")
    /\ UNCHANGED <<fsVars, now, uuids, buf, created, persisted>>

\* this.sendResponse(...) after addFocusCheckpoint has returned, or
\* this.sendError(...) in the catch block after update or
\* addFocusCheckpoint has thrown
UpdateWithFocusRespond(p) ==
    /\ ~(UpdateOfTool(p) /\ ret[p].tag = "return")
    /\ Return(p)

UnknownTask == <<"no-such-task">>

ToolNext ==
    \/ uuids = 0 /\ CreateCall("p1", Str(<<"agent-1">>), Str(<<"start">>))
    \/ /\ calls < MaxFocusCalls
       /\ \E id \in Known \cup {UnknownTask},
             s \in {<<"completed">>, <<"blocked">>, <<"invalid-status">>},
             d \in {<<"done">>, <<>>} :
             UpdateWithFocusCall("p1", Str(id), Str(s), Str(d))
    \/ CreateAccess("p1")
    \/ CreateMkdir("p1")
    \/ TaskWriteOpen("p1")
    \/ TaskWriteData("p1")
    \/ UpdateAccess("p1")
    \/ UpdateRead("p1")
    \/ UpdateWithFocusAdd("p1")
    \/ AddRead("p1")
    \/ InitializeMkdir("p1")
    \/ CheckpointWriteOpen("p1")
    \/ CheckpointWriteData("p1")
    \/ UpdateWithFocusRespond("p1")
    \/ Tick

SpecTool == Init /\ [][ToolNext]_vars

-----------------------------------------------------------------------------
(* Concurrent callers of getStatus, on a stored task, on an unknown one    *)
(* and with an empty identifier; create and update run while no other call *)
(* is in flight; no filesystem fault                                       *)

ReadsNext ==
    \/ \E p \in Procs :
          /\ \A q \in Procs \ {p} : ~InFlight(q)
          /\ \/ uuids = 0
                /\ CreateCall(p, Str(<<"agent-1">>), Str(<<"start">>))
             \/ \E id \in Known, s \in {<<"completed">>, <<"failed">>} :
                   UpdateCall(p, Str(id), Str(s), Str(<<"done">>))
    \/ \E p \in Procs :
          /\ \A q \in Procs \ {p} : InFlight(q) => op[q] = "getStatus"
          /\ \E id \in Known \cup {UnknownTask, <<>>} :
                GetStatusCall(p, Str(id))
    \/ \E p \in Procs : StoreStep(p)
    \/ Tick

SpecReads == Init /\ [][ReadsNext]_vars

-----------------------------------------------------------------------------

(* Properties of the Task State Store *)

NonBlank(v) == IsString(v) /\ trim(v.val) # <<>>
Blank(v) == IsString(v) /\ trim(v.val) = <<>>
ValidStatus(v) == IsString(v) /\ v.val \in validStatuses

Threw(p, name) == ret[p].tag = "throw" /\ ret[p].name = name

\* process p has finished a call of `name` on an identifier that has a file
FinishedOnStored(p, name) ==
    /\ Done(p) /\ op[p] = name
    /\ NonBlank(arg[p].task_id)
    /\ Exists(taskFiles, trim(arg[p].task_id.val))

\* process p has finished a call of `name` on an identifier that has no file
FinishedOnUnknown(p, name) ==
    /\ Done(p) /\ op[p] = name
    /\ NonBlank(arg[p].task_id)
    /\ ~Exists(taskFiles, trim(arg[p].task_id.val))

\* C1: for an existing task, update(id, "completed", details) with details
\* empty or all white space succeeds, and the stored record then has
\* details == "".
C1_EmptyDetailsUpdateSucceeds ==
    \A p \in Procs :
        (/\ FinishedOnStored(p, "update")
         /\ arg[p].new_status = Str(<<"completed">>)
         /\ Blank(arg[p].new_details))
        => /\ ret[p].tag = "return"
           /\ ParseOk(taskFiles[trim(arg[p].task_id.val)])
           /\ JSONparse(taskFiles[trim(arg[p].task_id.val)]).details = Str(<<>>)

OnlyCreateAddsFiles ==
    \A name \in (DOMAIN taskFiles') \ (DOMAIN taskFiles) :
        \E p \in Procs : op[p] = "create" /\ key[p] = name

C3_InvalidStatusRejected ==
    [][\A p \in Procs :
          (/\ pc[p] = "idle" /\ pc'[p] # "idle" /\ op'[p] = "update"
           /\ NonBlank(arg'[p].task_id)
           /\ IsString(arg'[p].new_status)
           /\ ~ValidStatus(arg'[p].new_status)
           /\ IsString(arg'[p].new_details))
          => /\ pc'[p] = "done"
             /\ ret'[p].tag = "throw"
             /\ ret'[p].name = "InvalidStatusError"
             /\ taskFiles' = taskFiles]_vars

\* process p has finished an update that returned normally
UpdateReturned(p) == Done(p) /\ op[p] = "update" /\ ret[p].tag = "return"

\* C4: whatever updates have been applied to a task, one after the other
\* or overlapping, the stored owner and started_at are those create wrote.
C4_OwnerAndStartedAtPreserved ==
    \A id \in DOMAIN created :
        ParseOk(taskFiles[id])
        => /\ JSONparse(taskFiles[id]).owner = created[id].owner
           /\ JSONparse(taskFiles[id]).started_at = created[id].started_at

\* two overlapping updates have both returned, later than the create, and
\* the record of the task is on disk
C4_Witness ==
    /\ UpdateReturned("p1") /\ UpdateReturned("p2")
    /\ overlap["p1"] /\ overlap["p2"]
    /\ key["p1"] = key["p2"]
    /\ ParseOk(taskFiles[key["p1"]])
    /\ JSONparse(taskFiles[key["p1"]]).updated_at
          # JSONparse(taskFiles[key["p1"]]).started_at

\* the instant a stored record says it was last updated at
UpdatedAt(record) == DateParse(record.updated_at.val)

\* C5 as stated: the updated_at of the record on disk never decreases from
\* one persisted state of the record to the next, overlapping updates
\* included.
C5_UpdatedAtNeverDecreases ==
    [][\A id \in DOMAIN persisted.tasks :
          UpdatedAt(persisted'.tasks[id]) >= UpdatedAt(persisted.tasks[id])]_vars

\* the write of an update of process p lands in this step
UpdateLands(p) ==
    /\ pc[p] = "write_data" /\ op[p] = "update"
    /\ pc'[p] = "done" /\ ret'[p].tag = "return"
    /\ ParseOk(taskFiles'[key[p]])

\* C5 amended: when the write of an update lands whose call overlapped no
\* other call, the updated_at on disk is not earlier than the one of the
\* persisted state before.
C5_UpdatedAtNeverDecreasesAlone ==
    [][\A p \in Procs :
          (UpdateLands(p) /\ ~overlap[p] /\ key[p] \in DOMAIN persisted.tasks)
          => UpdatedAt(persisted'.tasks[key[p]])
                >= UpdatedAt(persisted.tasks[key[p]])]_vars

\* an update that overlapped no other call has returned, and the record on
\* disk, updated before by another update, carries its later updated_at
C5_Witness ==
    \E p \in Procs :
        /\ UpdateReturned(p) /\ ~overlap[p]
        /\ ParseOk(taskFiles[key[p]])
        /\ JSONparse(taskFiles[key[p]]) = persisted.tasks[key[p]]
        /\ persisted.tasks[key[p]].details = Str(trim(arg[p].new_details.val))
        /\ UpdatedAt(persisted.tasks[key[p]]) = MaxClock
        /\ now = MaxClock

-----------------------------------------------------------------------------
(* Properties of the Focus Chain Checkpoint Engine *)

\* process p has finished an addFocusCheckpoint
AddDone(p) == Done(p) /\ op[p] = "addFocusCheckpoint"
\* ... which returned a reinjection message
AddReturnedMessage(p) ==
    AddDone(p) /\ ret[p].tag = "return" /\ ret[p].val.type = "string"
\* ... which returned null
AddReturnedNull(p) == AddDone(p) /\ ret[p] = Returned(Null)

\* the checkpoint log of taskId on disk
Log(taskId) == JSONparse(checkpointFiles[taskId])

\* C6: on a log created by initializeFocusChain, the k-th of the
\* addFocusCheckpoint calls made one after the other returns a reinjection
\* message if k is a multiple of 5 and null otherwise.
C6_MessageAtEveryFifthCall ==
    \A p \in Procs :
        (AddDone(p) /\ added[key[p]].explicit)
        => IF added[key[p]].calls % 5 = 0
           THEN AddReturnedMessage(p)
           ELSE AddReturnedNull(p)

\* the 10th call on an initialized log has returned a message
C6_Witness ==
    /\ AddReturnedMessage("p1")
    /\ added[key["p1"]].explicit
    /\ added[key["p1"]].calls = 10

\* the positions of the entries of `tasks` whose status is "completed"
CompletedAt(tasks) ==
    {i \in 1..Len(tasks) : tasks[i].status.val = <<"completed">>}

\* the j-th smallest member of the set S of numbers
Nth(S, j) == CHOOSE i \in S : Cardinality({k \in S : k <= i}) = j

\* the descriptions of the entries of `tasks` at the positions S, in order
DescriptionsAt(tasks, S) ==
    [j \in 1..Cardinality(S) |-> tasks[Nth(S, j)].description]

\* C7: a reinjection message carries the objective of the log, the
\* descriptions of exactly the entries whose status is "completed", in
\* their order, with their number, and the descriptions of exactly the
\* other entries, in their order, with their number; the two numbers add up
\* to taskCount, and the entry of the call that returns the message is the
\* last of the entries.
C7_MessageContent ==
    \A p \in Procs :
        AddReturnedMessage(p)
        => LET log == Log(key[p])
               m == ret[p].val
               all == 1..Len(log.tasks)
           IN  /\ m.objective = log.objective
               /\ m.completed = DescriptionsAt(log.tasks, CompletedAt(log.tasks))
               /\ m.completedLength = Cardinality(CompletedAt(log.tasks))
               /\ m.pending
                     = DescriptionsAt(log.tasks, all \ CompletedAt(log.tasks))
               /\ m.pendingLength = Cardinality(all \ CompletedAt(log.tasks))
               /\ m.completedLength + m.pendingLength = log.taskCount
               /\ log.tasks # <<>>
               /\ log.tasks[Len(log.tasks)].description = arg[p].description
               /\ log.tasks[Len(log.tasks)].status = arg[p].status

\* a message has been returned that lists entries of both kinds, each with
\* both descriptions, the triggering entry among the completed ones
C7_Witness ==
    /\ AddReturnedMessage("p1")
    /\ arg["p1"].status = Str(<<"completed">>)
    /\ ret["p1"].val.completedLength = 2
    /\ ret["p1"].val.pendingLength = 3
    /\ ret["p1"].val.completed = <<Str(<<"step-b">>), Str(<<"step-a">>)>>
    /\ ret["p1"].val.pending[1] # ret["p1"].val.pending[2]

\* C8: addFocusCheckpoint(taskId, description, status) on a taskId that has
\* no log creates a log with objective = description, taskCount = 0 and no
\* entries, and returns null.
C8_FirstContactOnlyInitializes ==
    \A p \in Procs :
        (AddDone(p) /\ (~added[key[p]].explicit /\ added[key[p]].calls = 1))
        => /\ AddReturnedNull(p)
           /\ Exists(checkpointFiles, key[p])
           /\ ParseOk(checkpointFiles[key[p]])
           /\ Log(key[p]).objective = arg[p].description
           /\ Log(key[p]).taskId = arg[p].taskId
           /\ Log(key[p]).taskCount = 0
           /\ Log(key[p]).tasks = <<>>
           /\ "lastReinject" \notin DOMAIN Log(key[p])

\* the first call ever made for the task was an addFocusCheckpoint, which
\* has returned null and left a log on disk
C8_Witness ==
    /\ AddReturnedNull("p1")
    /\ (~added[key["p1"]].explicit /\ added[key["p1"]].calls = 1)
    /\ Exists(checkpointFiles, key["p1"])
    /\ Log(key["p1"]).objective = Str(<<"step-b">>)

\* C9: in every checkpoint log on disk, taskCount is the number of entries,
\* whatever calls have run and however they overlapped.
C9_TaskCountIsNumberOfEntries ==
    \A taskId \in DOMAIN checkpointFiles :
        ParseOk(checkpointFiles[taskId])
        => Log(taskId).taskCount = Len(Log(taskId).tasks)

\* two overlapping addFocusCheckpoint calls have both returned and the log
\* holds checkpoints
C9_Witness ==
    /\ AddReturnedNull("p1") /\ AddReturnedNull("p2")
    /\ overlap["p1"] /\ overlap["p2"]
    /\ ParseOk(checkpointFiles[key["p1"]])
    /\ Log(key["p1"]).taskCount >= 1

\* the sequence s is a prefix of the sequence t
IsPrefix(s, t) == Len(s) <= Len(t) /\ SubSeq(t, 1, Len(s)) = s

\* C10 as stated: from one persisted state of a log to the next the entries
\* before are a prefix of the entries after, whatever calls of
\* initializeFocusChain and addFocusCheckpoint run and however they overlap.
C10_EntriesAppendOnly ==
    [][\A taskId \in DOMAIN persisted.checkpoints :
          IsPrefix(persisted.checkpoints[taskId].tasks,
                   persisted'.checkpoints[taskId].tasks)]_vars

\* the write of an addFocusCheckpoint of process p lands in this step
AddLands(p) ==
    /\ pc[p] = "checkpoint_data" /\ op[p] = "addFocusCheckpoint"
    /\ pc'[p] = "done" /\ ret'[p].tag = "return"
    /\ ParseOk(checkpointFiles'[key[p]])

\* C10 amended: when the write of an addFocusCheckpoint lands whose call
\* overlapped no other call, the entries persisted before are a prefix of
\* the entries persisted now.
C10_EntriesAppendOnlyAlone ==
    [][\A p \in Procs :
          (AddLands(p) /\ ~overlap[p]
             /\ key[p] \in DOMAIN persisted.checkpoints)
          => IsPrefix(persisted.checkpoints[key[p]].tasks,
                      persisted'.checkpoints[key[p]].tasks)]_vars

\* an addFocusCheckpoint that overlapped no other call has returned and
\* left a log of two entries, its own the second
C10_Witness ==
    \E p \in Procs :
        /\ AddReturnedNull(p) /\ ~overlap[p]
        /\ ParseOk(checkpointFiles[key[p]])
        /\ Len(Log(key[p]).tasks) = 2
        /\ Log(key[p]).tasks[2].description = arg[p].description
        /\ Log(key[p]).tasks[1].description # arg[p].description

\* C11: a step of an addFocusCheckpoint call leaves the objective of every
\* persisted checkpoint log as it was, also when the call runs together
\* with the initializeFocusChain that creates the log.
C11_AddKeepsObjective ==
    [][\A p \in Procs, taskId \in DOMAIN persisted.checkpoints :
          (op[p] = "addFocusCheckpoint" /\ pc[p] # pc'[p])
          => persisted'.checkpoints[taskId].objective
                = persisted.checkpoints[taskId].objective]_vars

\* process p has finished a create that returned an identifier
CreateReturned(p) == Done(p) /\ op[p] = "create" /\ ret[p].tag = "return"

\* the write of a create of process p lands in this step and create returns
CreateLands(p) ==
    /\ pc[p] = "write_data" /\ op[p] = "create"
    /\ pc'[p] = "done" /\ ret'[p].tag = "return"

\* C12: the identifier a create returns has been returned by no earlier
\* create and is returned by no concurrent one; the file create opens did
\* not exist; a getStatus that reads the file of an identifier create has
\* returned gives the record of that create.
C12_CreateReturnsFreshId ==
    /\ [](\A p, q \in Procs :
            (p # q /\ CreateReturned(p) /\ CreateReturned(q))
            => ret[p].val # ret[q].val)
    /\ [][\A p \in Procs :
            /\ (pc[p] = "get_read" /\ pc'[p] = "done"
                  /\ key[p] \in DOMAIN created)
               => ret'[p] = Returned(created[key[p]])
            /\ CreateLands(p) => ret'[p].val.val \notin DOMAIN created
            /\ (pc[p] = "write_open" /\ op[p] = "create"
                  /\ pc'[p] = "write_data")
               => ~Exists(taskFiles, key[p])]_vars

\* two overlapping creates have returned after an earlier one, and the
\* three records are on disk under three names
C12_Witness ==
    /\ CreateReturned("p1") /\ CreateReturned("p2")
    /\ overlap["p1"] /\ overlap["p2"]
    /\ Cardinality(DOMAIN created) = 3
    /\ \A id \in DOMAIN created :
          Exists(taskFiles, id) /\ taskFiles[id] = JSONstringify(created[id])

\* the string s is the string t without the white space at its two ends
IsTrimOf(s, t) ==
    /\ s # <<>> => (s[1] # WS /\ s[Len(s)] # WS)
    /\ \E i \in 0..Len(t) :
          /\ i + Len(s) <= Len(t)
          /\ SubSeq(t, i + 1, i + Len(s)) = s
          /\ \A j \in (1..i) \cup ((i + Len(s) + 1)..Len(t)) : t[j] = WS

\* C13: when create(owner, details) has returned, the record on disk under
\* the identifier returned has status "running", owner and details equal
\* to the arguments without the white space at their ends, and started_at
\* equal to updated_at.
C13_CreatedRecord ==
    \A p \in Procs :
        CreateReturned(p)
        => /\ Exists(taskFiles, ret[p].val.val)
           /\ ParseOk(taskFiles[ret[p].val.val])
           /\ LET record == JSONparse(taskFiles[ret[p].val.val])
              IN  /\ record.status = Str(<<"running">>)
                  /\ IsString(record.owner)
                  /\ IsTrimOf(record.owner.val, arg[p].owner.val)
                  /\ IsString(record.details)
                  /\ IsTrimOf(record.details.val, arg[p].details.val)
                  /\ record.started_at = record.updated_at
                  /\ matchesISO(record.started_at.val)

\* a create with white space around both arguments has returned, later
\* than an earlier create, and its record is on disk
C13_Witness ==
    /\ CreateReturned("p1")
    /\ arg["p1"].owner = Str(<<WS, "agent-2", WS>>)
    /\ arg["p1"].details = Str(<<WS, "y", WS>>)
    /\ JSONparse(taskFiles[ret["p1"].val.val]).owner = Str(<<"agent-2">>)
    /\ JSONparse(taskFiles[ret["p1"].val.val]).started_at = Str(toISOString(1))
    /\ Cardinality(DOMAIN taskFiles) = 2

\* the value v is a string that holds something other than white space
HasContent(v) == IsString(v) /\ \E i \in 1..Len(v.val) : v.val[i] # WS

\* C14: a call of create whose owner or details is missing, not a string,
\* or empty once trimmed throws at once, writes nothing and leaves the
\* stored records as they were.
C14_InvalidCreateRejected ==
    [][\A p \in Procs :
          (/\ pc[p] = "idle" /\ pc'[p] # "idle" /\ op'[p] = "create"
           /\ (~HasContent(arg'[p].owner) \/ ~HasContent(arg'[p].details)))
          => /\ pc'[p] = "done"
             /\ ret'[p].tag = "throw" /\ ret'[p].name = "Error"
             /\ taskFiles' = taskFiles
             /\ tasksDir' = tasksDir
             /\ uuids' = uuids]_vars

\* a create with an owner of white space has thrown while a record of an
\* earlier create is on disk
C14_Witness ==
    /\ Done("p1") /\ op["p1"] = "create"
    /\ arg["p1"].owner = Str(<<WS>>)
    /\ NonBlank(arg["p1"].details)
    /\ ret["p1"].tag = "throw"
    /\ Cardinality(DOMAIN taskFiles) = 1

\* the value v is a string of the shape of a timestamp
IsTimestamp(v) ==
    /\ IsString(v)
    /\ Len(v.val) = 2
    /\ \A i \in 1..2 :
          v.val[i] \in {"0", "1", "2", "3", "4", "5", "6", "7", "8", "9"}

\* the value v has the fields of a task record, each of its kind
SchemaOk(v) ==
    /\ v.type = "object"
    /\ {"status", "owner", "details", "started_at", "updated_at"}
          \subseteq DOMAIN v
    /\ v.status \in {Str(<<"running">>), Str(<<"completed">>),
                     Str(<<"failed">>), Str(<<"blocked">>)}
    /\ IsString(v.owner) /\ v.owner.val # <<>>
    /\ IsString(v.details)
    /\ IsTimestamp(v.started_at)
    /\ IsTimestamp(v.updated_at)

\* C15: getStatus on a file that is not well-formed JSON, or whose status
\* is none of the four, whose owner is missing or empty, whose details is
\* not a string, or whose started_at or updated_at is malformed throws an
\* Error; whatever getStatus returns is the stored record and has all
\* these fields well-formed.
C15_GetStatusValidates ==
    \A p \in Procs :
        (Done(p) /\ op[p] = "getStatus" /\ Exists(taskFiles, key[p]))
        => LET content == taskFiles[key[p]]
               good == ParseOk(content) /\ SchemaOk(JSONparse(content))
           IN  /\ ~good => (ret[p].tag = "throw" /\ ret[p].name = "Error")
               /\ ret[p].tag = "return"
                  => (good /\ ret[p].val = JSONparse(content))

\* getStatus has turned down a record whose only flaw is its updated_at
C15_Witness ==
    /\ Done("p1") /\ op["p1"] = "getStatus"
    /\ ret["p1"].tag = "throw"
    /\ ParseOk(taskFiles[key["p1"]])
    /\ JSONparse(taskFiles[key["p1"]]).type = "object"
    /\ Prop(JSONparse(taskFiles[key["p1"]]), "updated_at")
          = Str(<<"0", "1", "Z">>)
    /\ SchemaOk([JSONparse(taskFiles[key["p1"]]) EXCEPT
                    !.updated_at = Str(toISOString(1))])

\* the value v has the fields of a checkpoint log, each of its kind
LogSchemaOk(v) ==
    /\ v.type = "object"
    /\ "objective" \in DOMAIN v /\ IsString(v.objective)
    /\ "tasks" \in DOMAIN v
    /\ \A i \in 1..Len(v.tasks) :
          /\ "timestamp" \in DOMAIN v.tasks[i]
          /\ IsTimestamp(v.tasks[i].timestamp)

\* C16: getFocusStatus returns no log, and addFocusCheckpoint extends no
\* log, whose objective is missing or not a string, in which the timestamp
\* of an entry is malformed, or that is not a log at all.
C16_LogDecodingValidates ==
    \A p \in Procs :
        /\ (Done(p) /\ op[p] = "getFocusStatus" /\ ret[p].tag = "return"
              /\ ret[p].val # Null)
           => LogSchemaOk(ret[p].val)
        /\ (op[p] = "addFocusCheckpoint"
              /\ pc[p] \in {"checkpoint_open", "checkpoint_data"})
           => LogSchemaOk(buf[p].checkpoint)

\* the write of an update of process p fails in this step
UpdateWriteFails(p) ==
    /\ op[p] = "update" /\ pc[p] \in {"write_open", "write_data"}
    /\ pc'[p] = "done" /\ ret'[p].tag = "throw"

\* C17: when the write of an update fails, update throws and the file holds
\* the record persisted before the call, whole.  (Stated for an update
\* that overlapped no other call, so that the record before the call is
\* the last one persisted.)
C17_FailedUpdateKeepsRecord ==
    [][\A p \in Procs :
          (UpdateWriteFails(p) /\ ~overlap[p])
          => /\ key[p] \in DOMAIN persisted.tasks
             /\ taskFiles'[key[p]] = JSONstringify(persisted.tasks[key[p]])]_vars

\* the identifiers randomUUID() produced for a create that has failed
FailedCreateIds ==
    Issued \ (DOMAIN created
                \cup {key[p] : p \in {q \in Procs : op[q] = "create"
                                                     /\ InFlight(q)}})

\* C18: when create has thrown, there is no file under the identifier it
\* had generated, and a getStatus that looks for that identifier afterwards
\* throws TaskNotFoundError.
C18_FailedCreateLeavesNoRecord ==
    /\ [](\A p \in Procs :
            (Done(p) /\ op[p] = "create" /\ ret[p].tag = "throw")
            => ~Exists(taskFiles, key[p]))
    /\ [][\A p \in Procs :
            (pc[p] = "get_access" /\ pc'[p] # "get_access"
               /\ key[p] \in FailedCreateIds)
            => (pc'[p] = "done" /\ ret'[p].name = "TaskNotFoundError")]_vars

\* the write of a call of the checkpoint engine fails in this step, and the
\* call ends with the error
CheckpointWriteFails(p) ==
    /\ pc[p] \in {"checkpoint_open", "checkpoint_data"}
    /\ pc'[p] = "done" /\ ret'[p].tag = "throw"

\* C19: when the write of an addFocusCheckpoint or of an
\* initializeFocusChain fails, the call throws and the file holds the log
\* persisted before, whole.  (Stated for a call that overlapped no other
\* call, so that the log before the call is the last one persisted.)
C19_FailedWriteKeepsLog ==
    [][\A p \in Procs :
          (CheckpointWriteFails(p) /\ ~overlap[p]
             /\ key[p] \in DOMAIN persisted.checkpoints)
          => checkpointFiles'[key[p]]
                = JSONstringify(persisted.checkpoints[key[p]])]_vars

\* the two processes have finished updates of one record that overlapped
OverlappingUpdatesDone ==
    /\ \A p \in Procs : Done(p) /\ op[p] = "update" /\ overlap[p]
    /\ key["p1"] = key["p2"]
    /\ Exists(taskFiles, key["p1"])

\* C20: two overlapping updates of one record both return, and the file
\* then holds the record one of them built, its status and its details
\* from that same call; the record on disk after the write of an update
\* has landed is the record that update built.
C20_OverlappingUpdatesLastWins ==
    /\ [](OverlappingUpdatesDone
            => /\ \A p \in Procs : ret[p].tag = "return"
               /\ ParseOk(taskFiles[key["p1"]])
               /\ \E p \in Procs :
                     /\ JSONparse(taskFiles[key["p1"]]).status
                           = arg[p].new_status
                     /\ JSONparse(taskFiles[key["p1"]]).details
                           = arg[p].new_details)
    /\ [][\A p \in Procs :
            (/\ op[p] = "update" /\ pc[p] = "write_data"
             /\ pc'[p] = "done" /\ ret'[p].tag = "return")
            => taskFiles'[key[p]] = JSONstringify(buf[p])]_vars

\* both processes have finished an addFocusCheckpoint that overlapped the
\* other's and returned without error, and no other addFocusCheckpoint was
\* made on the log since initializeFocusChain wrote it
TwoOverlappingAddsDone ==
    /\ \A p \in Procs :
          /\ AddDone(p) /\ ret[p].tag = "return"
          /\ overlap[p] /\ key[p] = TheTask.val
    /\ (added[TheTask.val].explicit /\ added[TheTask.val].calls = 2)

\* C21: two overlapping addFocusCheckpoint calls on an existing log that
\* both return without error leave a well-formed log with one or two more
\* entries than before, taskCount raised by as many, the last entry being
\* that of one of the two calls; the case of one entry, where the other
\* call's checkpoint is lost, happens.
C21_OverlappingAddsGainOneOrTwo ==
    (TwoOverlappingAddsDone /\ ParseOk(checkpointFiles[TheTask.val]))
    => LET log == Log(TheTask.val)
       IN  /\ Len(log.tasks) \in {1, 2}
           /\ log.taskCount = Len(log.tasks)
           /\ \E p \in Procs :
                 log.tasks[Len(log.tasks)].description = arg[p].description
           /\ log.objective = TheObjective

\* both calls have returned null and the log has gained one entry only:
\* taskCount is 1 and the checkpoint of process p1 is not in it
C21_Witness ==
    /\ TwoOverlappingAddsDone
    /\ \A p \in Procs : AddReturnedNull(p)
    /\ ParseOk(checkpointFiles[TheTask.val])
    /\ Log(TheTask.val).taskCount = 1
    /\ Len(Log(TheTask.val).tasks) = 1
    /\ arg["p1"].description # arg["p2"].description
    /\ Log(TheTask.val).tasks[1].description = arg["p2"].description

\* the identifier the call of process p is about: the one create issues,
\* the task_id passed to getStatus and update, the taskId passed to the
\* checkpoint engine
IdOf(p) ==
    IF op[p] = "create" THEN key[p]
    ELSE IF op[p] \in {"getStatus", "update"} THEN trim(arg[p].task_id.val)
    ELSE arg[p].taskId.val

\* the file `name` of a directory is the same before and after
SameFile(before, after, name) ==
    /\ Exists(before, name) <=> Exists(after, name)
    /\ Exists(before, name) => after[name] = before[name]

\* C22: a step of a create, getStatus, update, initializeFocusChain or
\* addFocusCheckpoint on one identifier leaves the record and the log of
\* every other identifier as they were; an update of a task, whatever is
\* done to other tasks meanwhile, returns and leaves the record of its task
\* with its status and its details.
C22_DifferentIdsDoNotInteract ==
    /\ [][\A p \in Procs :
            (InFlight(p) /\ pc'[p] # pc[p])
            => /\ \A n \in (DOMAIN taskFiles \cup DOMAIN taskFiles') \ {IdOf(p)} :
                     SameFile(taskFiles, taskFiles', n)
               /\ \A n \in (DOMAIN checkpointFiles \cup DOMAIN checkpointFiles')
                              \ {IdOf(p)} :
                     SameFile(checkpointFiles, checkpointFiles', n)
               /\ \A n \in DOMAIN persisted.tasks \ {IdOf(p)} :
                     persisted'.tasks[n] = persisted.tasks[n]
               /\ \A n \in DOMAIN persisted.checkpoints \ {IdOf(p)} :
                     persisted'.checkpoints[n] = persisted.checkpoints[n]]_vars
    /\ [](\A p \in Procs :
            (Done(p) /\ op[p] = "update")
            => /\ ret[p].tag = "return"
               /\ ParseOk(taskFiles[IdOf(p)])
               /\ JSONparse(taskFiles[IdOf(p)]).status = arg[p].new_status
               /\ JSONparse(taskFiles[IdOf(p)]).details = arg[p].new_details)

\* two updates of different tasks that overlapped have both returned, each
\* task has a log, and each record holds the details of its own update
C22_Witness ==
    /\ \A p \in Procs : UpdateReturned(p) /\ overlap[p]
    /\ IdOf("p1") # IdOf("p2")
    /\ arg["p1"].new_details # arg["p2"].new_details
    /\ \A p \in Procs :
          /\ JSONparse(taskFiles[IdOf(p)]).details = arg[p].new_details
          /\ Exists(checkpointFiles, IdOf(p))
          /\ ParseOk(checkpointFiles[IdOf(p)])

\* C23: of the create calls that start while the tasks directory does not
\* exist, and of the initializeFocusChain calls that start while the
\* checkpoints directory does not exist, every one returns without error
\* with its record or its log in its file; the directory is there whenever
\* one of them opens its file.
C23_EnsureDirectoryRaceSafe ==
    \A p \in Procs :
        /\ (Done(p) /\ op[p] = "create")
           => /\ ret[p].tag = "return"
              /\ Exists(taskFiles, key[p])
              /\ taskFiles[key[p]]
                    = JSONstringify(NewTaskStatus(arg[p].owner, arg[p].details,
                                                  toISOString(now)))
        /\ (Done(p) /\ op[p] = "initializeFocusChain")
           => /\ ret[p].tag = "return"
              /\ Exists(checkpointFiles, key[p])
              /\ checkpointFiles[key[p]]
                    = JSONstringify(NewCheckpoint(arg[p].taskId,
                                                  arg[p].objective))
        /\ (op[p] = "create" /\ pc[p] \in {"write_open", "write_data"})
           => tasksDir
        /\ pc[p] \in {"checkpoint_open", "checkpoint_data"} => checkpointsDir

\* two creates that started while the tasks directory did not exist and
\* overlapped have both returned, their two records are on disk, and so
\* are the logs of two initializeFocusChain calls that started while the
\* checkpoints directory did not exist
C23_Witness ==
    /\ \A p \in Procs : CreateReturned(p) /\ overlap[p]
    /\ ret["p1"].val # ret["p2"].val
    /\ \A p \in Procs :
          /\ Exists(taskFiles, ret[p].val.val)
          /\ ParseOk(taskFiles[ret[p].val.val])
          /\ Exists(checkpointFiles, TaskOf(p).val)
          /\ ParseOk(checkpointFiles[TaskOf(p).val])

\* C24: a getFocusStatus for a taskId of which no log has been persisted
\* returns null, one for a taskId with a persisted log returns that log,
\* and no step of a getFocusStatus changes a file of the checkpoint engine.
C24_GetFocusStatusReturnsLogOrNull ==
    [][\A p \in Procs :
          (op[p] = "getFocusStatus" /\ pc[p] = "focus_read" /\ pc'[p] = "done")
          => /\ ret'[p] = IF key[p] \in DOMAIN persisted.checkpoints
                          THEN Returned(persisted.checkpoints[key[p]])
                          ELSE Returned(Null)
             /\ checkpointFiles' = checkpointFiles]_vars

\* process p has finished an initializeFocusChain
InitializeDone(p) == Done(p) /\ op[p] = "initializeFocusChain"

\* C25: when initializeFocusChain(taskId, objective) has returned, the log
\* of taskId has taskCount 0, no entries, the objective passed and no
\* lastReinject, whatever log the task had before; the addFocusCheckpoint
\* calls made after it count from one again, the log holding as many
\* entries as there were calls since, and the one that returns a message
\* is the fifth (and every fifth) of them.
C25_InitializeStartsAfresh ==
    \A p \in Procs :
        /\ InitializeDone(p)
           => /\ ret[p] = Returned(Undefined)
              /\ Exists(checkpointFiles, key[p])
              /\ ParseOk(checkpointFiles[key[p]])
              /\ Log(key[p]).taskCount = 0
              /\ Log(key[p]).tasks = <<>>
              /\ Log(key[p]).objective = arg[p].objective
              /\ Log(key[p]).taskId = arg[p].taskId
              /\ "lastReinject" \notin DOMAIN Log(key[p])
        /\ (AddDone(p) /\ added[key[p]].explicit)
           => /\ ret[p].tag = "return"
              /\ Log(key[p]).taskCount = added[key[p]].calls
              /\ Len(Log(key[p]).tasks) = added[key[p]].calls
              /\ (ret[p].val # Null) <=> (added[key[p]].calls % 5 = 0)

\* initializeFocusChain was called on a log that had entries (eight
\* checkpoints have been pushed in all), and the fifth addFocusCheckpoint
\* after it has returned a message on a log of five entries
C25_Witness ==
    /\ AddReturnedMessage("p1")
    /\ (added[key["p1"]].explicit /\ added[key["p1"]].calls = 5)
    /\ uuids = 8
    /\ Log(key["p1"]).taskCount = 5
    /\ Len(Log(key["p1"]).tasks) = 5

\* C26: every task record that create or update has persisted has one of
\* the four statuses, an owner that is a non-empty string, and an
\* updated_at that is not earlier than its started_at.
C26_PersistedRecordInvariant ==
    \A id \in DOMAIN persisted.tasks :
        LET record == persisted.tasks[id]
        IN  /\ record.status \in {Str(<<"running">>), Str(<<"completed">>),
                                  Str(<<"failed">>), Str(<<"blocked">>)}
            /\ IsString(record.owner) /\ record.owner.val # <<>>
            /\ IsTimestamp(record.started_at)
            /\ IsTimestamp(record.updated_at)
            /\ DateParse(record.updated_at.val)
                  >= DateParse(record.started_at.val)

\* an update has persisted a record whose updated_at is later than its
\* started_at
C26_Witness ==
    /\ UpdateReturned("p1")
    /\ key["p1"] \in DOMAIN persisted.tasks
    /\ persisted.tasks[key["p1"]].status = Str(<<"completed">>)
    /\ taskFiles[key["p1"]] = JSONstringify(persisted.tasks[key["p1"]])
    /\ DateParse(persisted.tasks[key["p1"]].updated_at.val)
          > DateParse(persisted.tasks[key["p1"]].started_at.val)

\* C27: every record create or update has written passes
\* validateTaskStatus, and a getStatus that reads the file while it holds
\* the text of the last of these writes returns a record with the same
\* fields and the same values as the record that was written.
C27_WrittenRecordsReadBack ==
    /\ [](\A id \in DOMAIN persisted.tasks :
            validateTaskStatus(persisted.tasks[id]) = "ok")
    /\ [][\A p \in Procs :
            (/\ op[p] = "getStatus" /\ pc[p] = "get_read" /\ pc'[p] = "done"
             /\ key[p] \in DOMAIN persisted.tasks
             /\ taskFiles[key[p]] = JSONstringify(persisted.tasks[key[p]]))
            => /\ ret'[p].tag = "return"
               /\ DOMAIN ret'[p].val = DOMAIN persisted.tasks[key[p]]
               /\ \A f \in DOMAIN ret'[p].val :
                     ret'[p].val[f] = persisted.tasks[key[p]][f]]_vars

\* a getStatus has returned the record an update wrote, later than the
\* create: status completed, details other than those of the create
C27_Witness ==
    /\ Done("p1") /\ op["p1"] = "getStatus" /\ ret["p1"].tag = "return"
    /\ ret["p1"].val = persisted.tasks[key["p1"]]
    /\ ret["p1"].val.status = Str(<<"completed">>)
    /\ ret["p1"].val.details # created[key["p1"]].details
    /\ ret["p1"].val.updated_at # ret["p1"].val.started_at

\* C28: no step removes the file of a task record, and no getStatus and no
\* update on an identifier create has returned ends with
\* TaskNotFoundError.
C28_RecordsAreNeverDeleted ==
    /\ [][\A id \in DOMAIN taskFiles : id \in DOMAIN taskFiles']_vars
    /\ [](\A id \in DOMAIN created : Exists(taskFiles, id))
    /\ [](\A p \in Procs :
            (Done(p) /\ op[p] \in {"getStatus", "update"}
               /\ key[p] \in DOMAIN created)
            => ~(ret[p].tag = "throw" /\ ret[p].name = "TaskNotFoundError"))

\* after a create and an update that has returned, a getStatus on the
\* identifier has returned the record, and so has another update
C28_Witness ==
    /\ Done("p1") /\ op["p1"] = "getStatus" /\ ret["p1"].tag = "return"
    /\ key["p1"] \in DOMAIN created
    /\ ret["p1"].val.status = Str(<<"completed">>)
    /\ UpdateReturned("p2") /\ key["p2"] = key["p1"]
    /\ ~overlap["p2"]

\* the log has a lastReinject
HasLastReinject(log) == "lastReinject" \in DOMAIN log

\* C29: a log the checkpoint engine has persisted, and a log on disk, has
\* a lastReinject exactly if its taskCount is at least 5; the write of an
\* addFocusCheckpoint that returns null, made on its own on a log with a
\* lastReinject, leaves the lastReinject as it was.
C29_LastReinjectIffThresholdReached ==
    /\ [](\A taskId \in DOMAIN persisted.checkpoints :
            HasLastReinject(persisted.checkpoints[taskId])
            <=> persisted.checkpoints[taskId].taskCount >= 5)
    /\ [](\A taskId \in DOMAIN checkpointFiles :
            ParseOk(checkpointFiles[taskId])
            => (HasLastReinject(Log(taskId)) <=> Log(taskId).taskCount >= 5))
    /\ [][\A p \in Procs :
            (/\ AddLands(p) /\ ~overlap[p] /\ ret'[p] = Returned(Null)
             /\ key[p] \in DOMAIN persisted.checkpoints
             /\ HasLastReinject(persisted.checkpoints[key[p]]))
            => /\ HasLastReinject(persisted'.checkpoints[key[p]])
               /\ persisted'.checkpoints[key[p]].lastReinject
                     = persisted.checkpoints[key[p]].lastReinject]_vars

\* the fifth checkpoint has set lastReinject and the sixth, made later on
\* its own, has returned null and kept it
C29_Witness ==
    /\ AddReturnedNull("p1") /\ ~overlap["p1"]
    /\ ParseOk(checkpointFiles[key["p1"]])
    /\ Log(key["p1"]).taskCount = 6
    /\ HasLastReinject(Log(key["p1"]))
    /\ Log(key["p1"]).lastReinject # Log(key["p1"]).tasks[6].timestamp

\* C30: no step removes the file of a log; a getFocusStatus for a task of
\* which a log has been persisted does not return null; and an
\* addFocusCheckpoint on such a task, made while no other call is under
\* way, is not turned down when it has read the file: it goes on to write
\* the log with its checkpoint, whatever became of the calls before it.
C30_ActiveLogStaysActive ==
    /\ [][\A taskId \in DOMAIN checkpointFiles :
            taskId \in DOMAIN checkpointFiles']_vars
    /\ [][\A p \in Procs :
            (/\ op[p] = "getFocusStatus" /\ pc[p] = "focus_read"
             /\ pc'[p] = "done" /\ key[p] \in DOMAIN persisted.checkpoints)
            => ret'[p] # Returned(Null)]_vars
    /\ [][\A p \in Procs :
            (/\ op[p] = "addFocusCheckpoint" /\ pc[p] = "add_read"
             /\ pc'[p] # pc[p] /\ key[p] \in DOMAIN persisted.checkpoints
             /\ ~overlap[p])
            => pc'[p] = "checkpoint_open"]_vars

\* the timestamps of the entries do not decrease along the log
TimestampsInOrder(log) ==
    \A i, j \in 1..Len(log.tasks) :
        i < j => DateParse(log.tasks[i].timestamp.val)
                    <= DateParse(log.tasks[j].timestamp.val)

\* C31: in every log the checkpoint engine has persisted, and in every log
\* on disk, the timestamps of the entries do not decrease in the order of
\* the entries, also when addFocusCheckpoint calls on the task overlap.
C31_EntryTimestampsInOrder ==
    /\ \A taskId \in DOMAIN persisted.checkpoints :
          TimestampsInOrder(persisted.checkpoints[taskId])
    /\ \A taskId \in DOMAIN checkpointFiles :
          ParseOk(checkpointFiles[taskId]) => TimestampsInOrder(Log(taskId))

\* two addFocusCheckpoint calls that overlapped have both returned and
\* the log holds their two entries, the second stamped later than the first
C31_Witness ==
    /\ \A p \in Procs : AddReturnedNull(p) /\ overlap[p]
    /\ key["p1"] = key["p2"]
    /\ ParseOk(checkpointFiles[key["p1"]])
    /\ Len(Log(key["p1"]).tasks) = 2
    /\ DateParse(Log(key["p1"]).tasks[1].timestamp.val)
          < DateParse(Log(key["p1"]).tasks[2].timestamp.val)

\* the operation a step of process p belongs to
StepOf(p) == IF Idle(p) THEN op'[p] ELSE op[p]

\* C32: initializeFocusChain and addFocusCheckpoint on a task that has no
\* record return without error; no step of a call of the checkpoint
\* engine changes the tasks directory or a record, and no step of create,
\* getStatus or update changes the checkpoints directory or a log.
C32_EnginesAreIndependent ==
    /\ [](\A p \in Procs :
            (/\ Done(p)
             /\ op[p] \in {"initializeFocusChain", "addFocusCheckpoint"}
             /\ ~Exists(taskFiles, key[p]))
            => ret[p].tag = "return" /\ Exists(checkpointFiles, key[p]))
    /\ [][\A p \in Procs :
            pc'[p] # pc[p]
            => /\ StepOf(p) \in {"initializeFocusChain", "addFocusCheckpoint",
                                 "getFocusStatus"}
                  => /\ taskFiles' = taskFiles
                     /\ tasksDir' = tasksDir
                     /\ persisted'.tasks = persisted.tasks
               /\ StepOf(p) \in {"create", "getStatus", "update"}
                  => /\ checkpointFiles' = checkpointFiles
                     /\ checkpointsDir' = checkpointsDir
                     /\ persisted'.checkpoints = persisted.checkpoints]_vars

\* an addFocusCheckpoint on a task without a record has returned with its
\* entry in the log, while an update of the record of another task, under
\* way at the same time, has returned too
C32_Witness ==
    /\ AddReturnedNull("p2") /\ overlap["p2"]
    /\ ~Exists(taskFiles, key["p2"])
    /\ ParseOk(checkpointFiles[key["p2"]])
    /\ Len(Log(key["p2"]).tasks) = 1
    /\ UpdateReturned("p1") /\ overlap["p1"]
    /\ JSONparse(taskFiles[key["p1"]]).status = Str(<<"completed">>)

\* C33: an update of a record to any of the four statuses, whatever the
\* status of the record is, returns without error and leaves the record
\* with the new status and the new details.
C33_AnyStatusToAnyStatus ==
    \A p \in Procs :
        (Done(p) /\ op[p] = "update" /\ key[p] \in DOMAIN created)
        => /\ ret[p].tag = "return"
           /\ ParseOk(taskFiles[key[p]])
           /\ JSONparse(taskFiles[key[p]]).status = arg[p].new_status
           /\ JSONparse(taskFiles[key[p]]).details = arg[p].new_details

\* a getStatus has returned the record as completed, and an update made
\* later has returned and left it running
C33_Witness ==
    /\ UpdateReturned("p1")
    /\ arg["p1"].new_status = Str(<<"running">>)
    /\ JSONparse(taskFiles[key["p1"]]).status = Str(<<"running">>)
    /\ Done("p2") /\ op["p2"] = "getStatus" /\ ret["p2"].tag = "return"
    /\ key["p2"] = key["p1"]
    /\ ret["p2"].val.status = Str(<<"completed">>)
    /\ DateParse(ret["p2"].val.updated_at.val)
          < DateParse(JSONparse(taskFiles[key["p1"]]).updated_at.val)

\* C34: on a task whose log no initializeFocusChain has written, the k-th
\* of the addFocusCheckpoint calls made one after the other returns a
\* message exactly if k > 1 and k - 1 is a multiple of 5; the log holds the
\* entries of the calls after the first, and its objective, which the
\* message carries, is the description of the first call and is changed by
\* no later one; the lists of the message have k - 1 descriptions in all.
C34_UninitializedLogCountsFromSecondCall ==
    /\ [](\A p \in Procs :
            (AddDone(p) /\ ~added[key[p]].explicit)
            => LET k == added[key[p]].calls
                   log == Log(key[p])
               IN  /\ ret[p].tag = "return"
                   /\ (ret[p].val # Null) <=> (k > 1 /\ (k - 1) % 5 = 0)
                   /\ log.taskCount = k - 1
                   /\ Len(log.tasks) = k - 1
                   /\ k = 1 => log.objective = arg[p].description
                   /\ ret[p].val # Null
                      => /\ ret[p].val.objective = log.objective
                         /\ ret[p].val.completedLength
                               + ret[p].val.pendingLength = k - 1)
    /\ [][\A p \in Procs :
            (AddLands(p) /\ ~added[key[p]].explicit
               /\ key[p] \in DOMAIN persisted.checkpoints)
            => persisted'.checkpoints[key[p]].objective
                  = persisted.checkpoints[key[p]].objective]_vars

\* the sixth call on a task never initialized has returned a message
\* whose objective is the description of the first call, step-a, while
\* the entries, and so the lists, hold step-b only
C34_Witness ==
    /\ AddReturnedMessage("p1")
    /\ (~added[key["p1"]].explicit /\ added[key["p1"]].calls = 6)
    /\ ret["p1"].val.objective = Str(<<"step-a">>)
    /\ \A i \in 1..Len(Log(key["p1"]).tasks) :
          Log(key["p1"]).tasks[i].description = Str(<<"step-b">>)
    /\ ret["p1"].val.completedLength + ret["p1"].val.pendingLength = 5

\* with no call on the log of taskId in flight, the calls that returned a
\* message since its initialization are as many as the multiples of 5 up to
\* the taskCount on disk
MessagesMatchTaskCount(taskId) ==
    (/\ Exists(checkpointFiles, taskId)
     /\ ParseOk(checkpointFiles[taskId])
     /\ \A p \in Procs : key[p] = taskId => (Idle(p) \/ Done(p)))
    => added[taskId].messages = Log(taskId).taskCount \div REINJECT_THRESHOLD

\* C35 as stated: after one initializeFocusChain and any interleaving of
\* addFocusCheckpoint calls, the calls that returned a message are as many
\* as floor(taskCount / 5) of the log on disk.
C35_MessagesMatchTaskCount ==
    \A taskId \in DOMAIN added : MessagesMatchTaskCount(taskId)

\* C35 amended: when the write of an addFocusCheckpoint lands whose call
\* overlapped no other call, and the calls that returned a message were as
\* many as floor(taskCount / 5) of the log persisted before, they are as
\* many as floor(taskCount / 5) of the log on disk now: calls made one
\* after the other announce every multiple of 5 once.
C35_LoneAddKeepsMessagesMatching ==
    [][\A p \in Procs :
          (/\ AddLands(p) /\ ~overlap[p]
           /\ key[p] \in DOMAIN persisted.checkpoints
           /\ added[key[p]].messages
                 = persisted.checkpoints[key[p]].taskCount
                      \div REINJECT_THRESHOLD)
          => added'[key[p]].messages
                = JSONparse(checkpointFiles'[key[p]]).taskCount
                     \div REINJECT_THRESHOLD]_vars

\* a call that overlapped no other has taken the log from four entries to
\* five and is the one call that has returned a message
C35_Witness ==
    /\ AddReturnedMessage("p1")
    /\ ~overlap["p1"]
    /\ added[key["p1"]].messages = 1
    /\ Log(key["p1"]).taskCount = REINJECT_THRESHOLD

\* the file of task id holds no well-formed task record
StoredMalformed(id) ==
    ~ParseOk(taskFiles[id]) \/ ~SchemaOk(JSONparse(taskFiles[id]))

\* C36: update on a stored payload that is not well-formed JSON or fails
\* the validation of a task record throws an Error, and while no write of a
\* record that passed the validation is under way such a payload is
\* changed by no step: update neither repairs nor overwrites it.
C36_UpdateKeepsMalformedRecord ==
    /\ [](\A p \in Procs :
            (/\ Done(p) /\ op[p] = "update"
             /\ Exists(taskFiles, key[p])
             /\ StoredMalformed(key[p]))
            => Threw(p, "Error"))
    /\ [][\A id \in DOMAIN taskFiles :
            (StoredMalformed(id) /\ \A p \in Procs : pc[p] # "write_data")
            => taskFiles'[id] = taskFiles[id]]_vars

\* update with a valid status and details has thrown on a record whose
\* only flaw is its updated_at, and the record is still there as it was
C36_Witness ==
    /\ Done("p1") /\ op["p1"] = "update"
    /\ arg["p1"].new_status = Str(<<"completed">>)
    /\ Threw("p1", "Error")
    /\ ParseOk(taskFiles[key["p1"]])
    /\ JSONparse(taskFiles[key["p1"]]).type = "object"
    /\ Prop(JSONparse(taskFiles[key["p1"]]), "updated_at")
          = Str(<<"0", "1", "Z">>)
    /\ Prop(JSONparse(taskFiles[key["p1"]]), "status") = Str(<<"running">>)
    /\ SchemaOk([JSONparse(taskFiles[key["p1"]]) EXCEPT
                    !.updated_at = Str(toISOString(1))])

\* the call of process p appends the checkpoint of an update that the Task
\* Record shows: the record of its task has its status and its details
AppendsForAppliedUpdate(p) ==
    /\ op[p] = "addFocusCheckpoint" /\ InFlight(p)
    /\ Exists(taskFiles, trim(arg[p].taskId.val))
    /\ ParseOk(taskFiles[trim(arg[p].taskId.val)])
    /\ LET record == JSONparse(taskFiles[trim(arg[p].taskId.val)])
       IN  /\ Prop(record, "status") = arg[p].status
           /\ Prop(record, "details") = Str(trim(arg[p].description.val))

\* C37: with update_task_with_focus the checkpoint store (the directory,
\* the logs) changes only in a step of an addFocusCheckpoint whose update
\* the Task Record already shows; an update that has thrown is followed by
\* no step on the checkpoint store, so that no log exists of a task that
\* has no record and every entry carries one of the four statuses.
C37_UpdateBeforeCheckpoint ==
    /\ [][(checkpointFiles' # checkpointFiles
             \/ checkpointsDir' # checkpointsDir)
          => \E p \in Procs : AppendsForAppliedUpdate(p)]_vars
    /\ [][\A p \in Procs :
            (Done(p) /\ UpdateOfTool(p) /\ ret[p].tag = "throw")
            => /\ pc'[p] \in {"done", "idle"}
               /\ pc'[p] = "done" => op'[p] = "update"]_vars
    /\ [](\A taskId \in DOMAIN checkpointFiles :
            /\ Exists(taskFiles, taskId)
            /\ ParseOk(checkpointFiles[taskId])
               => \A i \in 1..Len(Log(taskId).tasks) :
                     Log(taskId).tasks[i].status.val \in validStatuses)

\* the update of the tool has thrown InvalidStatusError on a task whose
\* log holds the one checkpoint of an earlier call that went through, and
\* whose record still shows that call's status
C37_Witness ==
    /\ Done("p1") /\ UpdateOfTool("p1")
    /\ Threw("p1", "InvalidStatusError")
    /\ Exists(checkpointFiles, arg["p1"].task_id.val)
    /\ Len(Log(arg["p1"].task_id.val).tasks) = 1
    /\ Log(arg["p1"].task_id.val).tasks[1].status = Str(<<"completed">>)
    /\ Prop(JSONparse(taskFiles[arg["p1"].task_id.val]), "status")
          = Str(<<"completed">>)

\* C38: no step of a getStatus call, one that returns or one that throws,
\* changes the tasks directory or a file in it; two getStatus calls with
\* the same argument that overlapped in time, while no create or update
\* was in flight, have the same outcome, returning equal records.
C38_GetStatusIsReadOnly ==
    /\ [][\A p \in Procs :
            (StepOf(p) = "getStatus" /\ pc'[p] # pc[p])
            => UNCHANGED <<taskFiles, tasksDir>>]_vars
    /\ [](\A p, q \in Procs :
            (/\ p # q
             /\ Done(p) /\ op[p] = "getStatus" /\ overlap[p]
             /\ Done(q) /\ op[q] = "getStatus" /\ overlap[q]
             /\ arg[p].task_id = arg[q].task_id)
            => ret[p] = ret[q])

\* two overlapping getStatus calls have returned the record of a task that
\* an update has set to completed, and the file still holds that record
C38_Witness ==
    /\ \A p \in Procs :
          /\ Done(p) /\ op[p] = "getStatus" /\ overlap[p]
          /\ ret[p].tag = "return"
          /\ ret[p].val.status = Str(<<"completed">>)
          /\ ret[p].val = JSONparse(taskFiles[key[p]])
    /\ key["p1"] = key["p2"]

=============================================================================
